---------------------------- MODULE Spec2Model ----------------------------
(***************************************************************************)
(* A model of the derivation core of onepass: the schema AST and its       *)
(* enumeration engine (size / write_to), character classes, the built-in   *)
(* word / words generators, the schema parser and canonical repr, and the  *)
(* uniform index draw.                                                     *)
(*                                                                         *)
(* Conventions.                                                            *)
(*  - A character is its Unicode scalar value (a natural number); a string *)
(*    is a sequence of characters.  The strings of the model are ASCII, so *)
(*    a string's bytes are its characters.                                 *)
(*  - A call that can panic returns a record [ok, val]; ok = FALSE is the  *)
(*    panic (unwrap on None, failed assert!, arithmetic overflow with      *)
(*    overflow checks on, slice index out of range).                       *)
(*  - TLC's integers are 32-bit, so the two wide integer types are kept at *)
(*    a reduced width: U256 is U256Bits wide and the u32 of a repetition   *)
(*    count is CountBits wide.  All arithmetic on them is exact to that    *)
(*    width (saturating, checked or wrapping as in the source).  Character *)
(*    arithmetic (u32 in the source) never exceeds 0x110000 and is done on *)
(*    TLC's integers directly.                                             *)
(***************************************************************************)
EXTENDS Integers, Sequences, FiniteSets, TLC

VARIABLES
    mode,             \* which component this behaviour exercises
    pc,               \* position of the caller inside that component
    overflow_checks,  \* build profile: TRUE = overflow checks on (debug)
    expr,             \* Expr.root
    context,          \* Expr.context
    sz,               \* result of the last size() call
    idx,              \* index passed to the last write_to() call
    out,              \* result of the last write_to() call
    ranges_in,        \* the ranges collected for Chars::from_ranges
    chars,            \* the Chars value from_ranges returned
    n_arg,            \* secret_uniform: the argument n
    n_bits,           \* secret_uniform: n_bits
    n_bytes,          \* secret_uniform: n_bytes
    hi_mask,          \* secret_uniform: hi_mask
    ret,              \* secret_uniform: the bytes ret[..n_bytes] of the last candidate
    result,           \* secret_uniform: the value returned
    rejections,       \* secret_uniform: candidates rejected so far (saturating)
    typed,            \* the number of tokens typed
    schema,           \* the schema string typed so far / given to the parser
    ast,              \* the Node parsed from schema, or built directly
    repr,             \* the canonical repr of ast
    ast2,             \* the Node parsed from repr
    repr2,            \* the canonical repr of ast2
    fields,           \* the fields given to format_tsv!
    record,           \* the string format_tsv! returned
    site,             \* the Site whose derivation record is written
    derivation,       \* the Display output of Derivation(site)
    dict_text,        \* the string given to BoxDict::from_lines / from_sep
    items_in,         \* the tokens given to BoxDict::from_iter
    box_dict,         \* the BoxDict built
    arcs,             \* the Arc allocations holding hash-to-dictionary tables
    contexts,         \* the Context values alive
    last_call,        \* the last call made on a Context
    normalize_of,     \* url::normalize as the url crate computes it, on the urls in use
    sites_in,         \* the RawSites given to Config::from_global_site
    config,           \* the Config built
    query,            \* the arguments of the last Config::find_site call
    found,            \* the result of the last Config::find_site call
    use_keyring,      \* seed_password::read: the argument use_keyring
    confirm,          \* seed_password::read: the argument confirm
    keyring_entry,    \* the password the OS keyring holds for the entry, if any
    password,         \* seed_password::read: the local password
    io_log,           \* the keyring and console operations made so far, in order
    read_result,      \* what seed_password::read returned
    buf,              \* Site::password: the buffer
    buf_pos,          \* Site::password: the bytes of buf the writer has passed
    rendering,        \* the bytes schema.write_to has been writing, whole
    password_out,     \* what Site::password returned
    disk,             \* the config files: canonical path to content
    includes,         \* Config::from_file: the queue includes
    visited,          \* Config::from_file: the set visited
    merged_global,    \* Config::from_file: the local global
    merged_site,      \* Config::from_file: the local site
    reads,            \* the canonical paths read and merged so far, in order
    from_file_out     \* what Config::from_file returned

evalVars == <<overflow_checks, expr, context, sz, idx, out>>
charsVars == <<ranges_in, chars>>
uniformVars == <<n_arg, n_bits, n_bytes, hi_mask, ret, result, rejections>>
reprVars == <<typed, schema, ast, repr, ast2, repr2>>
tsvVars == <<fields, record, site, derivation>>
dictVars == <<dict_text, items_in, box_dict>>
ctxVars == <<arcs, contexts, last_call>>
confVars == <<normalize_of, sites_in, config, query, found>>
seedVars == <<use_keyring, confirm, keyring_entry, password, io_log, read_result>>
passVars == <<buf, buf_pos, rendering, password_out>>
fileVars == <<disk, includes, visited, merged_global, merged_site, reads, from_file_out>>
lateVars == <<passVars, fileVars>>
moreVars == <<confVars, seedVars, lateVars>>
restVars == <<tsvVars, dictVars, ctxVars, moreVars>>
vars == <<mode, pc, evalVars, charsVars, uniformVars, reprVars, restVars>>

-----------------------------------------------------------------------------
(* Bounds of the model *)

\* width of the model's U256 (256 in the source)
U256Bits == 6
\* width of the model's repetition counts (u32 in the source)
CountBits == 3
\* width of the model's Word (u64 in the source)
WordBits == 5

-----------------------------------------------------------------------------
(* Results *)

Ok(v) == [ok |-> TRUE, val |-> v]
Panic == [ok |-> FALSE, val |-> 0]

Min(a, b) == IF a <= b THEN a ELSE b
Max(a, b) == IF a >= b THEN a ELSE b

RECURSIVE Pow2(_)
Pow2(n) == IF n = 0 THEN 1 ELSE 2 * Pow2(n - 1)

\* number of significant bits (Uint::bits_vartime)
RECURSIVE bits_vartime(_)
bits_vartime(x) == IF x = 0 THEN 0 ELSE 1 + bits_vartime(x \div 2)

\* number of trailing zero bits of a non-zero value (Uint::trailing_zeros_vartime)
RECURSIVE trailing_zeros_vartime(_)
trailing_zeros_vartime(x) ==
    IF x % 2 = 1 THEN 0 ELSE 1 + trailing_zeros_vartime(x \div 2)

-----------------------------------------------------------------------------
(* U256 arithmetic (crypto_bigint) at the model's width *)

U256_MAX == Pow2(U256Bits) - 1
U256 == 0..U256_MAX

saturating_mul(a, b) == Min(a * b, U256_MAX)

saturating_sub(a, b) == IF a >= b THEN a - b ELSE 0

\* CtOption: ok = FALSE is None
checked_sub(a, b) == IF a >= b THEN Ok(a - b) ELSE Panic

\* (quotient, remainder) by a non-zero divisor
div_rem(a, b) == <<a \div b, a % b>>

\* NonZero::new(x).unwrap()
NonZero_new_unwrap(x) == IF x = 0 THEN Panic ELSE Ok(x)

\* the u32 of a repetition count
COUNT_MAX == Pow2(CountBits) - 1

\* u32 addition: panics with overflow checks, wraps without
u32_add(a, b) ==
    IF a + b <= COUNT_MAX THEN Ok(a + b)
    ELSE IF overflow_checks THEN Panic
    ELSE Ok((a + b) % (COUNT_MAX + 1))

\* u32 subtraction: panics with overflow checks, wraps without
u32_sub(a, b) ==
    IF a >= b THEN Ok(a - b)
    ELSE IF overflow_checks THEN Panic
    ELSE Ok((a - b) % (COUNT_MAX + 1))

\* util.rs: the loop of u256_saturating_pow
RECURSIVE pow_loop(_, _, _)
pow_loop(res, base, n) ==
    IF n = 0 THEN res
    ELSE pow_loop(IF n % 2 = 1 THEN saturating_mul(res, base) ELSE res,
                  saturating_mul(base, base),
                  n \div 2)

u256_saturating_pow(base, n) == IF n = 0 THEN 1 ELSE pow_loop(1, base, n)

\* util.rs: assert!(x.bits_vartime() <= Word::BITS)
u256_to_word(x) == IF bits_vartime(x) <= WordBits THEN Ok(x) ELSE Panic

-----------------------------------------------------------------------------
(* chars.rs: CharRange and Chars *)

\* first and one-past-last surrogate, and the distance between them
SURROGATE_FIRST == 55296
SURROGATE_END == 57344
SURROGATE_LEN == 2048
\* char::MAX
CHAR_MAX == 1114111

\* char::from_u32(x).is_some()
IsChar(x) == /\ 0 <= x
             /\ x <= CHAR_MAX
             /\ ~(SURROGATE_FIRST <= x /\ x < SURROGATE_END)

CharRange(start, end) == [start |-> start, end |-> end]

\* fold of a sequence of naturals
\* CharRange::size; the assert!(start <= end) is its panic
CharRange_size(r) ==
    IF r.start > r.end THEN Panic
    ELSE LET count == r.end - r.start + 1
         IN  IF r.start < SURROGATE_FIRST /\ SURROGATE_END <= r.end
             THEN Ok(count - SURROGATE_LEN)
             ELSE Ok(count)

\* CharRange::nth; from_u32(..).unwrap() and assert!(res <= self.end) are its panics
CharRange_nth(r, n) ==
    LET res0 == r.start + n
        res  == IF r.start < SURROGATE_FIRST /\ res0 >= SURROGATE_FIRST
                THEN res0 + SURROGATE_LEN
                ELSE res0
    IN  IF IsChar(res) /\ res <= r.end THEN Ok(res) ELSE Panic

\* Chars::size (inherent): the sum of the ranges' sizes
RECURSIVE Chars_size(_)
Chars_size(ranges) ==
    IF ranges = <<>> THEN Ok(0)
    ELSE LET h == CharRange_size(Head(ranges))
             t == Chars_size(Tail(ranges))
         IN  IF h.ok /\ t.ok THEN Ok(h.val + t.val) ELSE Panic

\* Chars::nth; running off the end is unreachable!()
RECURSIVE Chars_nth(_, _)
Chars_nth(ranges, n) ==
    IF ranges = <<>> THEN Panic
    ELSE LET s == CharRange_size(Head(ranges))
         IN  IF ~s.ok THEN Panic
             ELSE IF n < s.val THEN CharRange_nth(Head(ranges), n)
             ELSE Chars_nth(Tail(ranges), n - s.val)

\* chars.rs: next_char
next_char(c) ==
    LET x == IF c = 55193 THEN 3584 ELSE c + 1    \* '\u{d799}' => 0xe00
    IN  IF IsChar(x) THEN [some |-> TRUE, val |-> x] ELSE [some |-> FALSE, val |-> 0]

\* Vec::swap(a, b) and Vec::drain(n..) on a 0-based vector held as a sequence
Swap(v, a, b) == [v EXCEPT ![a + 1] = v[b + 1], ![b + 1] = v[a + 1]]
Truncate(v, n) == SubSeq(v, 1, n)

\* Chars::from_ranges: the merge loop over the sorted vector (i, j are 0-based)
RECURSIVE from_ranges_loop(_, _, _)
from_ranges_loop(ranges, i, j) ==
    IF ~(j < Len(ranges)) THEN Truncate(ranges, i + 1)
    ELSE LET next == next_char(ranges[i + 1].end)
         IN  IF ~next.some THEN Truncate(ranges, i + 1)
             ELSE IF next.val >= ranges[j + 1].start
             THEN from_ranges_loop(
                     [ranges EXCEPT ![i + 1].end = Max(ranges[i + 1].end, ranges[j + 1].end)],
                     i, j + 1)
             ELSE from_ranges_loop(
                     IF j # i + 1 THEN Swap(ranges, i + 1, j) ELSE ranges,
                     i + 1, j + 1)

\* the orders sort_unstable_by(start) may leave the vector in
IsSortedByStart(v) == \A k \in 1..(Len(v) - 1) : v[k].start <= v[k + 1].start

Orderings(v) ==
    { [k \in 1..Len(v) |-> v[p[k]]] :
        p \in { q \in [1..Len(v) -> 1..Len(v)] : \A a, b \in 1..Len(v) : a # b => q[a] # q[b] } }

SortedByStart(v) == { w \in Orderings(v) : IsSortedByStart(w) }

\* insertion of r into a vector sorted by start, after the elements that compare equal
RECURSIVE InsertByStart(_, _)
InsertByStart(v, r) ==
    IF v = <<>> THEN <<r>>
    ELSE IF Head(v).start <= r.start THEN <<Head(v)>> \o InsertByStart(Tail(v), r)
    ELSE <<r>> \o v

\* the order a stable sort by start leaves (what sort_unstable does on short slices)
RECURSIVE StableSortByStart(_)
StableSortByStart(v) ==
    IF v = <<>> THEN <<>>
    ELSE InsertByStart(StableSortByStart(SubSeq(v, 1, Len(v) - 1)), v[Len(v)])

\* Chars::from_ranges on an already sorted vector; drain(i + 1..) of an empty vector panics
from_ranges_sorted(sorted) ==
    IF sorted = <<>> THEN Panic ELSE Ok(from_ranges_loop(sorted, 0, 1))

\* Chars::from_ranges
from_ranges(input) == from_ranges_sorted(StableSortByStart(input))

\* impl Eval for Chars: size
Chars_eval_size(ranges) ==
    LET s == Chars_size(ranges)
    IN  IF s.ok THEN NonZero_new_unwrap(s.val) ELSE Panic

\* impl Eval for Chars: write_to
Chars_write_to(ranges, index) ==
    LET w == u256_to_word(index)
    IN  IF ~w.ok THEN Panic
        ELSE LET c == Chars_nth(ranges, w.val)
             IN  IF c.ok THEN Ok(<<c.val>>) ELSE Panic

-----------------------------------------------------------------------------
(* Characters and strings *)

\* the ASCII characters the model names
CH == [ tab |-> 9, lf |-> 10, cr |-> 13, space |-> 32, bang |-> 33, hash |-> 35,
        lparen |-> 40, rparen |-> 41, plus |-> 43, comma |-> 44, minus |-> 45,
        dot |-> 46, slash |-> 47, zero |-> 48, one |-> 49, two |-> 50, three |-> 51,
        nine |-> 57, colon |-> 58, at |-> 64,
        dquote |-> 34, squote |-> 39,
        A |-> 65, B |-> 66, F |-> 70, U |-> 85, W |-> 87, Z |-> 90,
        lbrack |-> 91, bslash |-> 92, rbrack |-> 93, underscore |-> 95, backtick |-> 96,
        a |-> 97, b |-> 98, c |-> 99, d |-> 100, e |-> 101, f |-> 102,
        g |-> 103, h |-> 104, i |-> 105, l |-> 108, m |-> 109, p |-> 112,
        n |-> 110, o |-> 111, r |-> 114, s |-> 115, t |-> 116, u |-> 117,
        v |-> 118, w |-> 119, x |-> 120, z |-> 122,
        lbrace |-> 123, pipe |-> 124, rbrace |-> 125, tilde |-> 126, del |-> 127 ]

is_ascii_lowercase(c) == CH.a <= c /\ c <= CH.z
is_ascii_uppercase(c) == CH.A <= c /\ c <= CH.Z
is_ascii_digit(c) == CH.zero <= c /\ c <= CH.nine
is_ascii_alphanumeric(c) == is_ascii_lowercase(c) \/ is_ascii_uppercase(c) \/ is_ascii_digit(c)
is_ascii_hexdigit(c) ==
    is_ascii_digit(c) \/ (CH.a <= c /\ c <= CH.f) \/ (CH.A <= c /\ c <= CH.F)
is_ascii_punctuation(c) ==
    \/ CH.bang <= c /\ c <= CH.slash
    \/ CH.colon <= c /\ c <= CH.at
    \/ CH.lbrack <= c /\ c <= CH.backtick
    \/ CH.lbrace <= c /\ c <= CH.tilde

\* char::to_uppercase on an ASCII character
to_uppercase(c) == IF is_ascii_lowercase(c) THEN c - (CH.a - CH.A) ELSE c

\* concatenation of a sequence of strings
RECURSIVE Concat(_)
Concat(ss) == IF ss = <<>> THEN <<>> ELSE Head(ss) \o Concat(Tail(ss))

\* position of the first character of s satisfying the test, or 0
RECURSIVE FindNonLower(_, _)
FindNonLower(s, k) ==
    IF k > Len(s) THEN 0
    ELSE IF ~is_ascii_lowercase(s[k]) THEN k
    ELSE FindNonLower(s, k + 1)

\* str::split(sep): the pieces of s between occurrences of the character sep
split(s, sep) ==
    LET P == { k \in 1..Len(s) : s[k] = sep }
        n == Cardinality(P)
        \* the i-th occurrence of sep; 0 before the first and Len(s) + 1 after the last
        bound(i) == IF i = 0 THEN 0
                    ELSE IF i = n + 1 THEN Len(s) + 1
                    ELSE CHOOSE q \in P : Cardinality({ r \in P : r < q }) = i - 1
    IN  [i \in 1..(n + 1) |-> SubSeq(s, bound(i - 1) + 1, bound(i) - 1)]

\* str::parse::<u32>() of a string of digits; ok = FALSE is Err
RECURSIVE parse_digits(_, _)
parse_digits(s, acc) ==
    IF s = <<>> THEN Ok(acc)
    ELSE IF ~is_ascii_digit(Head(s)) THEN Panic
    ELSE LET v == acc * 10 + (Head(s) - CH.zero)
         IN  IF v > COUNT_MAX THEN Panic ELSE parse_digits(Tail(s), v)

parse_u32(s) ==
    IF s = <<>> THEN Panic
    ELSE IF Head(s) = CH.plus /\ Len(s) > 1 THEN parse_digits(Tail(s), 0)
    ELSE parse_digits(s, 0)

-----------------------------------------------------------------------------
(* hex *)

\* length of a dictionary hash in bytes
HASH_LEN == 32

hex_val(c) ==
    IF is_ascii_digit(c) THEN c - CH.zero
    ELSE IF CH.a <= c /\ c <= CH.f THEN c - CH.a + 10
    ELSE c - CH.A + 10

\* hex::decode_to_slice(arg, &mut [u8; 32]): ok = FALSE is Err
hex_decode(arg) ==
    IF Len(arg) = 2 * HASH_LEN /\ \A k \in 1..Len(arg) : is_ascii_hexdigit(arg[k])
    THEN Ok([k \in 1..HASH_LEN |-> 16 * hex_val(arg[2 * k - 1]) + hex_val(arg[2 * k])])
    ELSE Panic

hex_digit(v) == IF v < 10 THEN CH.zero + v ELSE CH.a + (v - 10)

\* hex::encode_to_slice: lowercase
hex_encode(bytes) ==
    [k \in 1..(2 * Len(bytes)) |->
        IF k % 2 = 1 THEN hex_digit(bytes[(k + 1) \div 2] \div 16)
        ELSE hex_digit(bytes[k \div 2] % 16)]

-----------------------------------------------------------------------------
(* context.rs: Context *)

WORD_NAME == <<CH.w, CH.o, CH.r, CH.d>>
WORDS_NAME == <<CH.w, CH.o, CH.r, CH.d, CH.s>>

\* Option<T>
None == [some |-> FALSE, val |-> <<>>]
Some(v) == [some |-> TRUE, val |-> v]

NoneHash == [some |-> FALSE, val |-> <<>>]
SomeHash(h) == [some |-> TRUE, val |-> h]

\* Context::dict_hash: the first argument that decodes as a hash
RECURSIVE dict_hash(_)
dict_hash(args) ==
    IF args = <<>> THEN NoneHash
    ELSE LET d == hex_decode(Head(args))
         IN  IF d.ok THEN SomeHash(d.val) ELSE dict_hash(Tail(args))

\* Context::get_generator; ok = FALSE is Err(NotFound)
get_generator(ctx, name) == IF name \in ctx.generator THEN Ok(name) ELSE Panic

\* Context::get_dict; ok = FALSE is Err(NotFound)
get_dict(ctx, hash) ==
    IF ~hash.some THEN Ok(ctx.default_dict)
    ELSE IF \E d \in ctx.dict : d.hash = hash.val
    THEN Ok(CHOOSE d \in ctx.dict : d.hash = hash.val)
    ELSE Panic

-----------------------------------------------------------------------------
(* generator.rs *)

\* Generator::name
Generator_name(text) ==
    LET k == FindNonLower(text, 1)
    IN  IF k = 0 THEN text ELSE SubSeq(text, 1, k - 1)

\* Generator::args
Generator_args(text) ==
    LET k == FindNonLower(text, 1)
    IN  IF k = 0 THEN <<>> ELSE Tail(split(text, text[k]))

\* Words::parse_args: one step of the loop over the arguments
parse_arg_step(st, arg) ==
    IF arg = <<>> THEN [st EXCEPT !.sep = <<>>]
    ELSE LET c == Head(arg)
             n == parse_u32(arg)
         IN  IF is_ascii_digit(c) /\ n.ok THEN [st EXCEPT !.count = n.val]
             ELSE IF Len(arg) = 1
             THEN IF is_ascii_punctuation(c) THEN [st EXCEPT !.sep = arg]
                  ELSE IF c = CH.U THEN [st EXCEPT !.upper = TRUE]
                  ELSE st
             ELSE st

RECURSIVE parse_args_loop(_, _)
parse_args_loop(st, args) ==
    IF args = <<>> THEN st ELSE parse_args_loop(parse_arg_step(st, Head(args)), Tail(args))

\* Words::parse_args; the assert!(count > 0) is its panic
Words_parse_args(args) ==
    LET st == parse_args_loop([count |-> 5, sep |-> <<CH.space>>, upper |-> FALSE], args)
    IN  IF st.count > 0 THEN Ok(st) ELSE Panic

\* <Word as GeneratorFunc>::size
Word_size(ctx, args) ==
    LET dict == get_dict(ctx, dict_hash(args))
    IN  IF ~dict.ok THEN Panic ELSE NonZero_new_unwrap(Len(dict.val.words))

\* <Word as GeneratorFunc>::write_to
Word_write_to(ctx, index, args) ==
    LET dict == get_dict(ctx, dict_hash(args))
        upper == \E k \in 1..Len(args) : args[k] = <<CH.U>>
        w == u256_to_word(index)
    IN  IF ~dict.ok \/ ~w.ok THEN Panic
        ELSE IF ~(w.val < Len(dict.val.words)) THEN Panic
        ELSE LET word == dict.val.words[w.val + 1]
             IN  IF ~upper THEN Ok(word)
                 ELSE IF word = <<>> THEN Panic
                 ELSE Ok(<<to_uppercase(Head(word))>> \o Tail(word))

\* <Words as GeneratorFunc>::size
Words_size(ctx, args) ==
    LET pa == Words_parse_args(args)
        base == Word_size(ctx, args)
    IN  IF ~pa.ok \/ ~base.ok THEN Panic
        ELSE LET n == u256_saturating_pow(base.val, pa.val.count)
             IN  NonZero_new_unwrap(
                     IF pa.val.upper THEN saturating_mul(n, pa.val.count) ELSE n)

\* <Words as GeneratorFunc>::write_to: the loop for i in 0..count
RECURSIVE Words_write_loop(_, _, _, _, _, _, _, _)
Words_write_loop(ctx, i, count, index, base, sep, upper, j) ==
    IF i = count THEN (IF index = 0 THEN Ok(<<>>) ELSE Panic)
    ELSE LET qr == div_rem(index, base)
             w == Word_write_to(ctx, qr[2], IF upper /\ i = j THEN <<(<<CH.U>>)>> ELSE <<>>)
             rest == Words_write_loop(ctx, i + 1, count, qr[1], base, sep, upper, j)
         IN  IF ~w.ok \/ ~rest.ok THEN Panic
             ELSE Ok((IF i # 0 THEN sep ELSE <<>>) \o w.val \o rest.val)

\* <Words as GeneratorFunc>::write_to
Words_write_to(ctx, index, args) ==
    LET pa == Words_parse_args(args)
        base == Word_size(ctx, args)
    IN  IF ~pa.ok \/ ~base.ok THEN Panic
        ELSE LET split_ == IF pa.val.upper THEN div_rem(index, pa.val.count) ELSE <<index, 0>>
                 j == u256_to_word(split_[2])
             IN  IF ~j.ok THEN Panic
                 ELSE Words_write_loop(ctx, 0, pa.val.count, split_[1], base.val,
                                       pa.val.sep, pa.val.upper, j.val)

\* impl EvalContext for Generator: size
Generator_size(text, ctx) ==
    LET g == get_generator(ctx, Generator_name(text))
    IN  IF ~g.ok THEN Panic
        ELSE IF g.val = WORD_NAME THEN Word_size(ctx, Generator_args(text))
        ELSE Words_size(ctx, Generator_args(text))

\* impl EvalContext for Generator: write_to
Generator_write_to(text, ctx, index) ==
    LET g == get_generator(ctx, Generator_name(text))
    IN  IF ~g.ok THEN Panic
        ELSE IF g.val = WORD_NAME THEN Word_write_to(ctx, index, Generator_args(text))
        ELSE Words_write_to(ctx, index, Generator_args(text))

-----------------------------------------------------------------------------
(* node.rs: Node *)

Literal(s) == [kind |-> "Literal", s |-> s]
Chars(ranges) == [kind |-> "Chars", ranges |-> ranges]
List(nodes) == [kind |-> "List", nodes |-> nodes]
Count(node, min, max) == [kind |-> "Count", node |-> node, min |-> min, max |-> max]
Generator(text) == [kind |-> "Generator", text |-> text]

\* Node::size (Count), given the child's size n
Count_size(n, min, max) ==
    IF n = 1
    THEN LET d == u32_sub(max, min)
             e == IF d.ok THEN u32_add(d.val, 1) ELSE Panic
         IN  IF e.ok THEN NonZero_new_unwrap(e.val) ELSE Panic
    ELSE LET l1 == u32_add(max, 1)
         IN  IF ~l1.ok THEN Panic
             ELSE LET x == checked_sub(u256_saturating_pow(n, l1.val),
                                       u256_saturating_pow(n, min))
                  IN  IF ~x.ok THEN Panic
                      ELSE LET qr == div_rem(x.val, saturating_sub(n, 1))
                           IN  IF qr[2] # 0 THEN Panic ELSE NonZero_new_unwrap(qr[1])

\* the fold over the children's sizes with a wrapping product in place of saturating_mul
RECURSIVE List_size_fold_wrapping(_, _)
List_size_fold_wrapping(acc, sizes) ==
    IF sizes = <<>> THEN NonZero_new_unwrap(acc)
    ELSE IF ~Head(sizes).ok THEN Panic
    ELSE List_size_fold_wrapping((acc * Head(sizes).val) % Pow2(U256Bits), Tail(sizes))

\* Node::size (List): the fold over the children's sizes
RECURSIVE List_size_fold(_, _)
List_size_fold(acc, sizes) ==
    IF sizes = <<>> THEN NonZero_new_unwrap(acc)
    ELSE IF ~Head(sizes).ok THEN Panic
    ELSE List_size_fold(saturating_mul(acc, Head(sizes).val), Tail(sizes))

\* Node::size
RECURSIVE Node_size(_, _)
Node_size(node, ctx) ==
    CASE node.kind = "Literal" -> Ok(1)
      [] node.kind = "Chars" -> Chars_eval_size(node.ranges)
      [] node.kind = "List" ->
            List_size_fold(1, [k \in 1..Len(node.nodes) |-> Node_size(node.nodes[k], ctx)])
      [] node.kind = "Count" ->
            LET n == Node_size(node.node, ctx)
            IN  IF ~n.ok THEN Panic ELSE Count_size(n.val, node.min, node.max)
      [] node.kind = "Generator" -> Generator_size(node.text, ctx)

\* the loop `while *n <= *index` without `*index -= *n`
RECURSIVE Count_find_keeps_index(_, _, _, _)
Count_find_keeps_index(count, index, n, base) ==
    IF ~(n <= index) THEN [ok |-> TRUE, count |-> count, index |-> index]
    ELSE IF count >= COUNT_MAX THEN [ok |-> FALSE, count |-> 0, index |-> 0]
    ELSE Count_find_keeps_index(count + 1, index, saturating_mul(n, base), base)

\* Node::write_to (Count): the loop `while *n <= *index`
RECURSIVE Count_find(_, _, _, _)
Count_find(count, index, n, base) ==
    IF ~(n <= index) THEN [ok |-> TRUE, count |-> count, index |-> index]
    ELSE LET c == u32_add(count, 1)
         IN  IF ~c.ok THEN [ok |-> FALSE, count |-> 0, index |-> 0]
             ELSE Count_find(c.val, index - n, saturating_mul(n, base), base)

\* Node::write_to
RECURSIVE Node_write_to(_, _, _)
RECURSIVE List_write_fold(_, _, _)
RECURSIVE Count_write_loop(_, _, _, _, _)

\* a List::write_to whose fold hands the whole index on instead of the quotient
List_write_fold_keeps_index(nodes, ctx, index) ==
    IF nodes = <<>> THEN Ok(<<>>)
    ELSE LET size == Node_size(Head(nodes), ctx)
         IN  IF ~size.ok THEN Panic
             ELSE LET qr == div_rem(index, size.val)
                      w == Node_write_to(Head(nodes), ctx, qr[2])
                      rest == List_write_fold(Tail(nodes), ctx, index)
                  IN  IF ~w.ok \/ ~rest.ok THEN Panic ELSE Ok(w.val \o rest.val)

\* Node::write_to (List): the try_fold over the children; the last index is dropped
List_write_fold(nodes, ctx, index) ==
    IF nodes = <<>> THEN Ok(<<>>)
    ELSE LET size == Node_size(Head(nodes), ctx)
         IN  IF ~size.ok THEN Panic
             ELSE LET qr == div_rem(index, size.val)
                      w == Node_write_to(Head(nodes), ctx, qr[2])
                      rest == List_write_fold(Tail(nodes), ctx, qr[1])
                  IN  IF ~w.ok \/ ~rest.ok THEN Panic ELSE Ok(w.val \o rest.val)

\* Node::write_to (Count): the loop `for _ in 0..count` and the final assert
Count_write_loop(node, ctx, k, index, base) ==
    IF k = 0 THEN (IF index = 0 THEN Ok(<<>>) ELSE Panic)
    ELSE LET qr == div_rem(index, base)
             w == Node_write_to(node, ctx, qr[2])
             rest == Count_write_loop(node, ctx, k - 1, qr[1], base)
         IN  IF ~w.ok \/ ~rest.ok THEN Panic ELSE Ok(w.val \o rest.val)

Node_write_to(node, ctx, index) ==
    CASE node.kind = "Literal" -> Ok(node.s)
      [] node.kind = "Chars" -> Chars_write_to(node.ranges, index)
      [] node.kind = "List" -> List_write_fold(node.nodes, ctx, index)
      [] node.kind = "Count" ->
            LET base == Node_size(node.node, ctx)
            IN  IF ~base.ok THEN Panic
                ELSE LET f == Count_find(node.min, index,
                                         u256_saturating_pow(base.val, node.min), base.val)
                     IN  IF ~f.ok THEN Panic
                         ELSE IF ~(f.count <= node.max) THEN Panic
                         ELSE Count_write_loop(node.node, ctx, f.count, f.index, base.val)
      [] node.kind = "Generator" -> Generator_write_to(node.text, ctx, index)

-----------------------------------------------------------------------------
(* The expressions and contexts the enumeration engine is exercised on *)

Str_a == <<CH.a>>
Str_b == <<CH.b>>
Str_ab == <<CH.a, CH.b>>
Str_aa == <<CH.a, CH.a>>

\* a dictionary as its builder leaves it: sorted words and the stored hash
Dict(words, tag) == [words |-> words, hash |-> [k \in 1..HASH_LEN |-> tag]]

DictA == Dict(<<Str_a, Str_b>>, 161)
DictC == Dict(<<Str_a, Str_aa>>, 172)
DictD == Dict(<<<<CH.c>>, <<CH.d>>, <<CH.e>>>>, 189)

\* Context::default() with DictA in place of the EFF list, and contexts built from
\* it by with_default_dict / extend
Generators == {WORD_NAME, WORDS_NAME}
CtxA == [generator |-> Generators, dict |-> {DictA}, default_dict |-> DictA]
CtxC == [generator |-> Generators, dict |-> {DictA, DictC}, default_dict |-> DictC]
CtxAD == [generator |-> Generators, dict |-> {DictA, DictD}, default_dict |-> DictA]
\* Context::empty()
CtxEmpty == [generator |-> {}, dict |-> {}, default_dict |-> DictA]

Contexts == {CtxA, CtxC, CtxAD, CtxEmpty}

\* the text of a generator reference: name then arguments, each after the separator
RECURSIVE GenText(_, _, _)
GenText(name, sep, args) ==
    IF args = <<>> THEN name ELSE GenText(name \o <<sep>> \o Head(args), sep, Tail(args))

GeneratorTexts ==
    { GenText(name, CH.pipe, args) :
        name \in {WORD_NAME, WORDS_NAME},
        args \in { <<>>, <<(<<CH.U>>)>>, <<(<<CH.two>>)>>, <<(<<CH.two>>), (<<CH.U>>)>>,
                   <<(<<CH.two>>), <<>>>>, <<(<<CH.zero>>)>>,
                   <<(<<CH.one>>), hex_encode(DictD.hash)>>,
                   <<hex_encode(DictD.hash), (<<CH.U>>)>> } }

GeneratorNodes == { Generator(t) : t \in GeneratorTexts }

CharsNodes ==
    { Chars(<<CharRange(CH.a, CH.b)>>),
      Chars(<<CharRange(CH.a, CH.b), CharRange(CH.d, CH.d)>>),
      Chars(<<CharRange(CH.a, CH.d)>>) }

LiteralNodes == { Literal(Str_a), Literal(Str_ab) }

\* the repetition bounds tried: small ones, those around the width of U256, the largest
CountArgs == {0, 1, 2, U256Bits - 1, U256Bits, COUNT_MAX}

SmallCounts ==
    { Count(c, m[1], m[2]) :
        c \in {Literal(Str_a), Chars(<<CharRange(CH.a, CH.b)>>)},
        m \in {<<0, 0>>, <<0, 1>>, <<1, 2>>, <<2, 2>>} }

\* a child large enough for the product of two list children to pass U256::MAX
WideCounts == { Count(Chars(<<CharRange(CH.a, CH.b)>>), 2, U256Bits - 2) }

ListItems ==
    LiteralNodes \cup CharsNodes \cup SmallCounts \cup WideCounts \cup {Generator(WORD_NAME)}

ListNodes == { List(<<x, y>>) : x, y \in ListItems }

CountNodes ==
    { Count(c, m, n) :
        c \in LiteralNodes \cup CharsNodes \cup SmallCounts
              \cup { List(<<Chars(<<CharRange(CH.a, CH.b)>>), Literal(Str_a)>>),
                     List(<<Chars(<<CharRange(CH.a, CH.b)>>), Chars(<<CharRange(CH.a, CH.d)>>)>>),
                     Generator(WORD_NAME) },
        m \in CountArgs, n \in CountArgs }

PlainNodes == LiteralNodes \cup CharsNodes \cup ListNodes \cup CountNodes

UsesGenerator(node) ==
    \/ node.kind = "Generator"
    \/ node.kind = "Count" /\ node.node.kind = "Generator"
    \/ node.kind = "List" /\ \E k \in 1..Len(node.nodes) : node.nodes[k].kind = "Generator"

-----------------------------------------------------------------------------
(* The values the variables of a component hold while another one is exercised *)

EvalIdle ==
    /\ overflow_checks = FALSE
    /\ expr = Literal(<<>>)
    /\ context = CtxEmpty
    /\ sz = Panic
    /\ idx = 0
    /\ out = Panic

CharsIdle ==
    /\ ranges_in = <<>>
    /\ chars = Panic

UniformIdle ==
    /\ n_arg = 1
    /\ n_bits = 0
    /\ n_bytes = 0
    /\ hi_mask = 0
    /\ ret = <<>>
    /\ result = 0
    /\ rejections = 0

ReprIdle ==
    /\ typed = 0
    /\ schema = <<>>
    /\ ast = Panic
    /\ repr = Panic
    /\ ast2 = Panic
    /\ repr2 = Panic

TsvIdle ==
    /\ fields = <<>>
    /\ record = Panic
    /\ site = Panic
    /\ derivation = Panic

DictIdle ==
    /\ dict_text = <<>>
    /\ items_in = <<>>
    /\ box_dict = Panic

CtxIdle ==
    /\ arcs = <<>>
    /\ contexts = <<>>
    /\ last_call = Panic

ConfIdle ==
    /\ normalize_of = <<>>
    /\ sites_in = <<>>
    /\ config = Panic
    /\ query = Panic
    /\ found = Panic

SeedIdle ==
    /\ use_keyring = FALSE
    /\ confirm = FALSE
    /\ keyring_entry = None
    /\ password = None
    /\ io_log = <<>>
    /\ read_result = Panic

PassIdle ==
    /\ buf = <<>>
    /\ buf_pos = 0
    /\ rendering = <<>>
    /\ password_out = Panic

FileIdle ==
    /\ disk = <<>>
    /\ includes = <<>>
    /\ visited = {}
    /\ merged_global = Panic
    /\ merged_site = <<>>
    /\ reads = <<>>
    /\ from_file_out = Panic

LateIdle == PassIdle /\ FileIdle

MoreIdle == ConfIdle /\ SeedIdle /\ LateIdle

RestIdle == TsvIdle /\ DictIdle /\ CtxIdle /\ MoreIdle

-----------------------------------------------------------------------------
(* The enumeration engine as its caller drives it: size(), then write_to(index) *)

InitEval ==
    /\ mode = "eval"
    /\ pc = "new"
    /\ overflow_checks \in BOOLEAN
    /\ \/ expr \in PlainNodes /\ ~UsesGenerator(expr) /\ context = CtxA
       \/ expr \in GeneratorNodes \cup { e \in PlainNodes : UsesGenerator(e) }
          /\ context \in Contexts
    /\ sz = Panic
    /\ idx = 0
    /\ out = Panic
    /\ CharsIdle
    /\ UniformIdle
    /\ ReprIdle
    /\ RestIdle

\* Expr::size
Size ==
    /\ mode = "eval"
    /\ pc = "new"
    /\ sz' = Node_size(expr, context)
    /\ pc' = "sized"
    /\ UNCHANGED <<mode, overflow_checks, expr, context, idx, out, charsVars, uniformVars, reprVars, restVars>>

\* Expr::write_to with an index below the size
WriteTo(i) ==
    /\ mode = "eval"
    /\ pc = "sized"
    /\ sz.ok
    /\ i < sz.val
    /\ idx' = i
    /\ out' = Node_write_to(expr, context, i)
    /\ pc' = "written"
    /\ UNCHANGED <<mode, overflow_checks, expr, context, sz, charsVars, uniformVars, reprVars, restVars>>

NextEval == Size \/ \E i \in U256 : WriteTo(i)

SpecEval == InitEval /\ [][NextEval]_vars

-----------------------------------------------------------------------------
(* Reference notions the properties of the enumeration engine are stated with *)

\* the bound past which reference cardinalities are no longer told apart
CAP == U256_MAX + 1

\* min(b^k, CAP), by repeated multiplication
RECURSIVE CapPow(_, _)
CapPow(b, k) == IF k = 0 THEN 1 ELSE Min(CapPow(b, k - 1) * b, CAP)

\* min(b^lo + ... + b^hi, CAP), term by term
RECURSIVE GeomSum(_, _, _)
GeomSum(b, lo, hi) ==
    IF lo > hi THEN 0 ELSE Min(CapPow(b, hi) + GeomSum(b, lo, hi - 1), CAP)

\* every repetition in the expression has min <= max
RECURSIVE WellFormed(_)
WellFormed(node) ==
    CASE node.kind = "List" -> \A k \in 1..Len(node.nodes) : WellFormed(node.nodes[k])
      [] node.kind = "Count" -> node.min <= node.max /\ WellFormed(node.node)
      [] OTHER -> TRUE

\* the number of index values the expression stands for, capped at CAP
\* (expressions without generators)
RECURSIVE TrueSize(_)
RECURSIVE TrueSizeProduct(_)
TrueSizeProduct(nodes) ==
    IF nodes = <<>> THEN 1 ELSE Min(TrueSize(Head(nodes)) * TrueSizeProduct(Tail(nodes)), CAP)

TrueSize(node) ==
    CASE node.kind = "Literal" -> 1
      [] node.kind = "Chars" -> Min(Chars_size(node.ranges).val, CAP)
      [] node.kind = "List" -> TrueSizeProduct(node.nodes)
      [] node.kind = "Count" -> GeomSum(TrueSize(node.node), node.min, node.max)

\* the common length of the words of a dictionary, -1 if they differ or it is empty
WordLen(dict) ==
    IF dict.words # <<>> /\ \A k \in 1..Len(dict.words) : Len(dict.words[k]) = Len(dict.words[1])
    THEN Len(dict.words[1]) ELSE -1

\* the length every rendering of the node has, -1 if renderings differ in length
RECURSIVE Width(_, _)
RECURSIVE WidthSum(_, _)
WidthSum(nodes, ctx) ==
    IF nodes = <<>> THEN 0
    ELSE LET w == Width(Head(nodes), ctx)
             r == WidthSum(Tail(nodes), ctx)
         IN  IF w < 0 \/ r < 0 THEN -1 ELSE w + r

Width(node, ctx) ==
    CASE node.kind = "Literal" -> Len(node.s)
      [] node.kind = "Chars" -> 1
      [] node.kind = "List" -> WidthSum(node.nodes, ctx)
      [] node.kind = "Count" ->
            LET w == Width(node.node, ctx)
            IN  IF w < 0 \/ node.min # node.max THEN -1 ELSE w * node.min
      [] node.kind = "Generator" ->
            LET l == WordLen(ctx.default_dict)
                pa == Words_parse_args(Generator_args(node.text))
            IN  IF l < 0 THEN -1
                ELSE IF Generator_name(node.text) = WORD_NAME THEN l
                ELSE IF ~pa.ok THEN -1
                ELSE pa.val.count * l + (pa.val.count - 1) * Len(pa.val.sep)

\* the ranges of a character class are in order and share no character
DisjointRanges(ranges) ==
    /\ \A k \in 1..Len(ranges) : ranges[k].start <= ranges[k].end
    /\ \A k \in 1..(Len(ranges) - 1) : ranges[k].end < ranges[k + 1].start

\* a structural condition under which a rendered string is recognised in one way only:
\* what precedes a variable-length part has a fixed length, repeated parts have a
\* fixed non-zero length, and the words of the dictionaries have one length and begin
\* with a lowercase letter
RECURSIVE Unambiguous(_, _)
Unambiguous(node, ctx) ==
    CASE node.kind = "Literal" -> TRUE
      [] node.kind = "Chars" -> DisjointRanges(node.ranges)
      [] node.kind = "List" ->
            /\ \A k \in 1..Len(node.nodes) : Unambiguous(node.nodes[k], ctx)
            /\ \A k \in 1..(Len(node.nodes) - 1) : Width(node.nodes[k], ctx) >= 0
      [] node.kind = "Count" ->
            /\ node.min <= node.max
            /\ Unambiguous(node.node, ctx)
            /\ \/ node.min = node.max /\ Width(node.node, ctx) >= 0
               \/ Width(node.node, ctx) > 0
      [] node.kind = "Generator" ->
            \A d \in ctx.dict \cup {ctx.default_dict} :
                /\ WordLen(d) > 0
                /\ \A k \in 1..Len(d.words) : is_ascii_lowercase(Head(d.words[k]))
                /\ \A k, l \in 1..Len(d.words) : k # l => d.words[k] # d.words[l]

-----------------------------------------------------------------------------
(* Properties of the enumeration engine, checked under SpecEval *)

\* C1 (as stated): any two distinct indices below size(expr) render to distinct
\* strings, for every expression and context (every index is reached as idx, so the
\* pairs j < idx are all the pairs).
C1_RenderInjective ==
    (mode = "eval" /\ pc = "written" /\ out.ok) =>
        \A j \in 0..(idx - 1) : Node_write_to(expr, context, j) # out

\* C1 (amended): for an expression that is recognised in one way only (Unambiguous),
\* any two distinct indices below size(expr) whose renderings return render to
\* distinct strings.
C1_RenderInjectiveUnambiguous ==
    (mode = "eval" /\ pc = "written" /\ out.ok /\ Unambiguous(expr, context)) =>
        \A j \in 0..(idx - 1) : Node_write_to(expr, context, j) # out

\* C1 witness: an unambiguous list of two parts, each of more than one value, was
\* rendered at an index past the first part's size.
C1_Witness ==
    /\ mode = "eval" /\ pc = "written" /\ out.ok
    /\ Unambiguous(expr, context)
    /\ expr.kind = "List"
    /\ Node_size(expr.nodes[1], context).val > 1
    /\ Node_size(expr.nodes[2], context).val > 1
    /\ idx >= Node_size(expr.nodes[1], context).val

\* C2 (as stated): write_to with an index below size(expr) returns a value.
C2_WriteToReturns ==
    (mode = "eval" /\ pc = "written") => out.ok

\* C8 (as stated): for a Count node with min <= max whose geometric sum fits in the
\* width of U256, size() is the sum of b^k for k = min..max, b the child's size.
C8_CountSizeIsGeometricSum ==
    (/\ mode = "eval" /\ pc # "new"
     /\ expr.kind = "Count" /\ expr.min <= expr.max
     /\ Node_size(expr.node, context).ok
     /\ GeomSum(Node_size(expr.node, context).val, expr.min, expr.max) <= U256_MAX)
    => sz = Ok(GeomSum(Node_size(expr.node, context).val, expr.min, expr.max))

\* C9 (as stated): for an expression whose cardinality exceeds the largest U256,
\* size() returns the largest U256 and does not panic.
C9_SizeSaturates ==
    (/\ mode = "eval" /\ pc # "new"
     /\ ~UsesGenerator(expr) /\ WellFormed(expr)
     /\ TrueSize(expr) > U256_MAX)
    => sz = Ok(U256_MAX)

-----------------------------------------------------------------------------
(* Chars::from_ranges as the parser of a bracket class drives it: the ranges are
   collected one by one, then from_ranges sorts and merges them *)

\* bound: the number of ranges collected
MaxRanges == 3

\* the characters the ranges are drawn from: two ASCII letters, U+0E00, the characters
\* around U+D799, the last character before the surrogates, the first after them, the last
RangeChars ==
    {CH.a, CH.b, 3584, 55192, 55193, 55194, SURROGATE_FIRST - 1, SURROGATE_END, CHAR_MAX}

InitChars ==
    /\ mode = "chars"
    /\ pc = "collect"
    /\ EvalIdle
    /\ CharsIdle
    /\ UniformIdle
    /\ ReprIdle
    /\ RestIdle

\* one more (start, end) pair with start <= end is collected
PushRange(start, end) ==
    /\ mode = "chars"
    /\ pc = "collect"
    /\ Len(ranges_in) < MaxRanges
    /\ start <= end
    /\ ranges_in' = Append(ranges_in, CharRange(start, end))
    /\ UNCHANGED <<mode, pc, chars, evalVars, uniformVars, reprVars, restVars>>

\* Chars::from_ranges on a non-empty vector; sort_unstable_by may leave ranges with
\* equal starts in either order
FromRanges ==
    /\ mode = "chars"
    /\ pc = "collect"
    /\ ranges_in # <<>>
    /\ \E sorted \in SortedByStart(ranges_in) : chars' = from_ranges_sorted(sorted)
    /\ pc' = "built"
    /\ UNCHANGED <<mode, ranges_in, evalVars, uniformVars, reprVars, restVars>>

NextChars ==
    \/ \E start, end \in RangeChars : PushRange(start, end)
    \/ FromRanges

SpecChars == InitChars /\ [][NextChars]_vars

\* the character after c, skipping the surrogate block; CHAR_MAX + 1 after the last
successor(c) == IF c = SURROGATE_FIRST - 1 THEN SURROGATE_END ELSE c + 1

\* C10 (as stated): the ranges of a Chars built by from_ranges from a non-empty list
\* are sorted by start, pairwise non-overlapping and coalesced: no two consecutive
\* ranges r, r' have successor(r.end) >= r'.start.
C10_FromRangesCoalesced ==
    (mode = "chars" /\ pc = "built" /\ chars.ok) =>
        /\ IsSortedByStart(chars.val)
        /\ \A k, l \in 1..Len(chars.val) :
              k < l => chars.val[k].end < chars.val[l].start
        /\ \A k \in 1..(Len(chars.val) - 1) :
              successor(chars.val[k].end) < chars.val[k + 1].start


-----------------------------------------------------------------------------
(* crypto.rs: secret_uniform.  The bytes ChaCha20Rng yields are any bytes. *)

\* bound: the small values of n tried (a few around 2^8 and 2^9 are added)
MaxN == 24

\* bound: the count of rejected candidates saturates here
MaxRejections == 2

Byte == 0..255

\* the values of n tried
NValues == (1..MaxN) \cup {255, 256, 511, 512}

\* u32::div_ceil
div_ceil(a, b) == (a + b - 1) \div b

\* u8 >> k for k < 8
shr_u8(x, k) == x \div Pow2(k)

\* u8 & mask, for a mask of the form 2^k - 1
and_mask(x, mask) == x % (mask + 1)

\* n_bits without the decrement for powers of two
sample_bits_undecremented(v) == bits_vartime(v)

\* n_bits after `if n.trailing_zeros_vartime() == n_bits - 1 { n_bits -= 1; }`
sample_bits(v) ==
    LET b == bits_vartime(v)
    IN  IF trailing_zeros_vartime(v) = b - 1 THEN b - 1 ELSE b

\* the mask without the outer `% 8`: a shift by 8 clears the byte
hi_mask_of_unreduced(bits) == shr_u8(255, 8 - (bits % 8))

\* let hi_mask = !0 >> ((8 - (n_bits % 8)) % 8)
hi_mask_of(bits) == shr_u8(255, (8 - (bits % 8)) % 8)

\* ret[n_bytes - 1] &= hi_mask
mask_top(bytes, mask) == [bytes EXCEPT ![Len(bytes)] = and_mask(bytes[Len(bytes)], mask)]

\* U256::from_le_bytes of a buffer whose bytes past n_bytes are zero
RECURSIVE from_le_bytes(_)
from_le_bytes(bytes) ==
    IF bytes = <<>> THEN 0 ELSE Head(bytes) + 256 * from_le_bytes(Tail(bytes))

\* the comparison with <= in place of <
accepts_le(v, bound) == v <= bound

\* ret.cmp(n) == Ordering::Less
accepts(v, bound) == v < bound

InitUniform ==
    /\ mode = "uniform"
    /\ pc = "start"
    /\ EvalIdle
    /\ CharsIdle
    /\ n_arg \in NValues
    /\ n_bits = 0
    /\ n_bytes = 0
    /\ hi_mask = 0
    /\ ret = <<>>
    /\ result = 0
    /\ rejections = 0
    /\ ReprIdle
    /\ RestIdle

\* secret_uniform up to the loop: the early return for n = 1, else the sample width
Start ==
    /\ mode = "uniform"
    /\ pc = "start"
    /\ IF bits_vartime(n_arg) = 1
       THEN /\ result' = 0
            /\ pc' = "done"
            /\ UNCHANGED <<n_bits, n_bytes, hi_mask>>
       ELSE /\ n_bits' = sample_bits(n_arg)
            /\ n_bytes' = div_ceil(sample_bits(n_arg), 8)
            /\ hi_mask' = hi_mask_of(sample_bits(n_arg))
            /\ pc' = "loop"
            /\ UNCHANGED result
    /\ UNCHANGED <<mode, n_arg, ret, rejections, evalVars, charsVars, reprVars, restVars>>

\* one iteration of the loop: fill_bytes yields raw, the top byte is masked, the
\* candidate is returned if it is below n
Draw(raw) ==
    /\ mode = "uniform"
    /\ pc = "loop"
    /\ LET masked == mask_top(raw, hi_mask)
       IN  /\ ret' = masked
           /\ IF accepts(from_le_bytes(masked), n_arg)
              THEN /\ result' = from_le_bytes(masked)
                   /\ pc' = "done"
                   /\ UNCHANGED rejections
              ELSE /\ rejections' = Min(rejections + 1, MaxRejections)
                   /\ UNCHANGED <<result, pc>>
    /\ UNCHANGED <<mode, n_arg, n_bits, n_bytes, hi_mask, evalVars, charsVars, reprVars, restVars>>

NextUniform == Start \/ \E raw \in [1..n_bytes -> Byte] : Draw(raw)

SpecUniform == InitUniform /\ [][NextUniform]_vars

\* the len little-endian bytes of v
to_le_bytes(v, len) == [k \in 1..len |-> (v \div Pow2(8 * (k - 1))) % 256]

\* an iteration whose candidate is returned: fill_bytes yields the bytes of a value that
\* the comparison accepts (bits the mask clears make no difference to the step)
AcceptedDraw ==
    \E v \in 0..(n_arg - 1) : accepts(v, n_arg) /\ Draw(to_le_bytes(v, n_bytes))

\* secret_uniform with an RNG that does not withhold the accepted candidates for ever
SpecUniformFair == SpecUniform /\ WF_vars(Start) /\ WF_vars(AcceptedDraw)

\* the candidates one iteration can produce: every fill of ret[..n_bytes], masked
Candidates == { mask_top(raw, hi_mask) : raw \in [1..n_bytes -> Byte] }

\* C6: the value secret_uniform returns is below n, whatever bytes the RNG yields.
C6_ResultBelowN ==
    (mode = "uniform" /\ pc = "done") => (0 <= result /\ result < n_arg)

\* C6 witness: a value was returned after a candidate had been rejected, for an n
\* that is not a power of two.
C6_Witness ==
    /\ mode = "uniform" /\ pc = "done"
    /\ rejections > 0
    /\ result = n_arg - 1
    /\ n_arg > 2

\* C7: for n >= 2, on entry to the loop every index below n is the value of exactly
\* one candidate of an iteration, and that candidate is returned; a candidate whose
\* value is not below n is rejected.
C7_OneCandidatePerIndex ==
    (mode = "uniform" /\ pc = "loop" /\ rejections = 0 /\ ret = <<>>) =>
        LET cands == Candidates
        IN  /\ \A i \in 0..(n_arg - 1) :
                  Cardinality({ c \in cands :
                                  from_le_bytes(c) = i /\ accepts(from_le_bytes(c), n_arg) }) = 1
            /\ \A c \in cands : from_le_bytes(c) >= n_arg => ~accepts(from_le_bytes(c), n_arg)

\* C7 witness: the loop was entered for an n that is no power of two and needs a
\* whole byte.
C7_Witness ==
    /\ mode = "uniform" /\ pc = "loop" /\ rejections = 0 /\ ret = <<>>
    /\ n_arg = 255


-----------------------------------------------------------------------------
(* parse.rs: the parser (nom).  A parser takes the input left and returns
   st = "ok" with the rest of the input and a value, st = "err" (nom::Err::Error,
   which alt / opt / many1 / fold recover from) or st = "fail" (nom::Err::Failure,
   which they pass on). *)

POk(rest, val) == [st |-> "ok", rest |-> rest, val |-> val]
PErr == [st |-> "err", rest |-> <<>>, val |-> 0]
PFail == [st |-> "fail", rest |-> <<>>, val |-> 0]

\* &input[k..]
Drop(input, k) == SubSeq(input, k + 1, Len(input))

\* tag(t)
starts_with(input, t) == Len(input) >= Len(t) /\ SubSeq(input, 1, Len(t)) = t

\* the length of the longest prefix of input whose characters satisfy none of `stop`
PrefixLen(input, stop) ==
    LET hits == { k \in 1..Len(input) : input[k] \in stop }
    IN  IF hits = {} THEN Len(input)
        ELSE (CHOOSE k \in hits : \A m \in hits : k <= m) - 1

\* verify(is_not(stop), |s| !s.is_empty())
is_not(input, stop) ==
    LET k == PrefixLen(input, stop)
    IN  IF k = 0 THEN PErr ELSE POk(Drop(input, k), SubSeq(input, 1, k))

\* the leading run of characters satisfying a test, given as the set of positions
\* that fail it
RunLen(input, bad) ==
    IF bad = {} THEN Len(input) ELSE (CHOOSE k \in bad : \A m \in bad : k <= m) - 1

\* u32::from_str_radix(s, 16) / u8::from_str_radix(s, 16) of hex digits
RECURSIVE from_str_radix16(_, _)
from_str_radix16(s, acc) ==
    IF s = <<>> THEN acc ELSE from_str_radix16(Tail(s), 16 * acc + hex_val(Head(s)))

\* nom::character::complete::u32: one or more digits; overflow is an error
nom_u32(input) ==
    LET digits(k) ==
            LET value(v) == IF k = 0 \/ ~v.ok THEN PErr ELSE POk(Drop(input, k), v.val)
            IN  value(parse_digits(SubSeq(input, 1, k), 0))
    IN  digits(RunLen(input, { j \in 1..Len(input) : ~is_ascii_digit(input[j]) }))

\* parse_hex_byte: tag("\\x") then exactly two hex digits
parse_hex_byte(input) ==
    IF /\ starts_with(input, <<CH.bslash, CH.x>>)
       /\ Len(input) >= 4
       /\ is_ascii_hexdigit(input[3]) /\ is_ascii_hexdigit(input[4])
    THEN POk(Drop(input, 4), from_str_radix16(SubSeq(input, 3, 4), 0))
    ELSE PErr

\* str_to_char: the character a UTF-8 sequence of 2 to 4 bytes encodes; ok = FALSE is
\* Err(Utf8Error)
str_to_char(bs) ==
    LET lead == bs[1]
        cont == \A k \in 2..Len(bs) : 128 <= bs[k] /\ bs[k] < 192
        c2 == (lead % 32) * 64 + (bs[2] % 64)
        c3 == ((lead % 16) * 64 + (bs[2] % 64)) * 64 + (bs[3] % 64)
        c4 == (((lead % 8) * 64 + (bs[2] % 64)) * 64 + (bs[3] % 64)) * 64 + (bs[4] % 64)
    IN  IF ~cont THEN Panic
        ELSE IF Len(bs) = 2 THEN (IF c2 >= 128 THEN Ok(c2) ELSE Panic)
        ELSE IF Len(bs) = 3 THEN (IF c3 >= 2048 /\ IsChar(c3) THEN Ok(c3) ELSE Panic)
        ELSE (IF c4 >= 65536 /\ IsChar(c4) THEN Ok(c4) ELSE Panic)

\* parse_hex_char: the continuation bytes of a multi-byte character
RECURSIVE parse_hex_more(_, _, _)
parse_hex_more(input, bs, more) ==
    LET decoded(c) == IF c.ok THEN POk(input, c.val) ELSE PErr
        next_byte(b) ==
            IF b.st # "ok" THEN b ELSE parse_hex_more(b.rest, Append(bs, b.val), more - 1)
    IN  IF more = 0 THEN decoded(str_to_char(bs)) ELSE next_byte(parse_hex_byte(input))

\* parse_hex_char
parse_hex_char(input) ==
    LET first_byte(b) ==
            LET more == IF b.val \div 32 = 6 THEN 1
                        ELSE IF b.val \div 16 = 14 THEN 2
                        ELSE IF b.val \div 8 = 30 THEN 3
                        ELSE 0
            IN  IF b.st # "ok" THEN b
                ELSE IF b.val < 128 THEN b
                ELSE IF more = 0 THEN PErr
                ELSE parse_hex_more(b.rest, <<b.val>>, more)
    IN  first_byte(parse_hex_byte(input))

\* parse_unicode_char: \uHHHH or \u{H..H} (1 to 6 digits), then char::try_from
parse_unicode_char(input) ==
    IF ~starts_with(input, <<CH.bslash, CH.u>>) THEN PErr
    ELSE LET in2 == Drop(input, 2)
             k == RunLen(in2, { j \in 1..Len(in2) : ~is_ascii_hexdigit(in2[j]) })
             in3 == Drop(in2, 1)
             m == Min(6, RunLen(in3, { j \in 1..Len(in3) : ~is_ascii_hexdigit(in3[j]) }))
             try_from(rest, v) == IF IsChar(v) THEN POk(rest, v) ELSE PErr
         IN  IF k >= 4
             THEN try_from(Drop(in2, 4), from_str_radix16(SubSeq(in2, 1, 4), 0))
             ELSE IF /\ in2 # <<>> /\ Head(in2) = CH.lbrace
                     /\ m >= 1 /\ Len(in3) > m /\ in3[m + 1] = CH.rbrace
             THEN try_from(Drop(in3, m + 1), from_str_radix16(SubSeq(in3, 1, m), 0))
             ELSE PErr

\* parse_literal_escaped
parse_literal_escaped(input) ==
    LET c == input[2]
        simple ==
            IF Len(input) >= 2 /\ Head(input) = CH.bslash
            THEN IF c = CH.n THEN POk(Drop(input, 2), CH.lf)
                 ELSE IF c = CH.r THEN POk(Drop(input, 2), CH.cr)
                 ELSE IF c = CH.t THEN POk(Drop(input, 2), CH.tab)
                 ELSE IF ~is_ascii_alphanumeric(c) THEN POk(Drop(input, 2), c)
                 ELSE PErr
            ELSE PErr
        or_unicode(hex) == IF hex.st = "ok" THEN hex ELSE parse_unicode_char(input)
        or_hex(first) == IF first.st = "ok" THEN first ELSE or_unicode(parse_hex_char(input))
    IN  or_hex(simple)

\* the characters a verbatim literal fragment stops at: is_not("\\[](){}|")
LiteralStops ==
    {CH.bslash, CH.lbrack, CH.rbrack, CH.lparen, CH.rparen, CH.lbrace, CH.rbrace, CH.pipe}

\* parse_literal_verbatim
parse_literal_verbatim(input) == is_not(input, LiteralStops)

\* parse_literal_fragment: the fragment as a string
parse_literal_fragment(input) ==
    LET escaped(e) == IF e.st = "ok" THEN POk(e.rest, <<e.val>>) ELSE e
        verbatim(v) == IF v.st = "ok" THEN v ELSE escaped(parse_literal_escaped(input))
    IN  verbatim(parse_literal_verbatim(input))

\* parse_literal: fold(1.., parse_literal_fragment, ..)
RECURSIVE parse_literal_fold(_, _, _)
parse_literal_fold(input, string, count) ==
    LET fragment(f) ==
            IF f.st = "ok" THEN parse_literal_fold(f.rest, string \o f.val, count + 1)
            ELSE IF f.st = "fail" THEN PFail
            ELSE IF count = 0 THEN PErr
            ELSE POk(input, string)
    IN  fragment(parse_literal_fragment(input))

parse_literal(input) == parse_literal_fold(input, <<>>, 0)


\* the class tables: LOWER, UPPER, ALPHA, ALNUM, DIGIT, XDIGIT, PUNCT, PRINT, WORD
LOWER == <<CharRange(CH.a, CH.z)>>
UPPER == <<CharRange(CH.A, CH.Z)>>
ALPHA == <<CharRange(CH.A, CH.Z), CharRange(CH.a, CH.z)>>
ALNUM == <<CharRange(CH.zero, CH.nine), CharRange(CH.A, CH.Z), CharRange(CH.a, CH.z)>>
DIGIT == <<CharRange(CH.zero, CH.nine)>>
XDIGIT == <<CharRange(CH.zero, CH.nine), CharRange(CH.a, CH.f)>>
PUNCT == <<CharRange(CH.bang, CH.slash), CharRange(CH.colon, CH.at),
           CharRange(CH.lbrack, CH.backtick), CharRange(CH.lbrace, CH.tilde)>>
PRINT == <<CharRange(CH.space, CH.tilde)>>
WORD == <<CharRange(CH.zero, CH.nine), CharRange(CH.A, CH.Z),
          CharRange(CH.underscore, CH.underscore), CharRange(CH.a, CH.z)>>

\* the names parse_chars_posix tries, in its order, with their tables
PosixClasses ==
    << [name |-> <<CH.l, CH.o, CH.w, CH.e, CH.r>>, table |-> LOWER],
       [name |-> <<CH.u, CH.p, CH.p, CH.e, CH.r>>, table |-> UPPER],
       [name |-> <<CH.a, CH.l, CH.p, CH.h, CH.a>>, table |-> ALPHA],
       [name |-> <<CH.a, CH.l, CH.n, CH.u, CH.m>>, table |-> ALNUM],
       [name |-> <<CH.d, CH.i, CH.g, CH.i, CH.t>>, table |-> DIGIT],
       [name |-> <<CH.x, CH.d, CH.i, CH.g, CH.i, CH.t>>, table |-> XDIGIT],
       [name |-> <<CH.p, CH.u, CH.n, CH.c, CH.t>>, table |-> PUNCT],
       [name |-> <<CH.p, CH.r, CH.i, CH.n, CH.t>>, table |-> PRINT] >>

\* parse_chars_posix: "[:" name ":]"
parse_chars_posix(input) ==
    LET body == Drop(input, 2)
        hits == { k \in 1..Len(PosixClasses) : starts_with(body, PosixClasses[k].name) }
        k == CHOOSE j \in hits : \A m \in hits : j <= m
        after == Drop(body, Len(PosixClasses[k].name))
    IN  IF ~starts_with(input, <<CH.lbrack, CH.colon>>) \/ hits = {} THEN PErr
        ELSE IF ~starts_with(after, <<CH.colon, CH.rbrack>>) THEN PErr
        ELSE POk(Drop(after, 2), PosixClasses[k].table)

\* parse_chars_special: \w or \d
parse_chars_special(input) ==
    IF starts_with(input, <<CH.bslash, CH.w>>) THEN POk(Drop(input, 2), WORD)
    ELSE IF starts_with(input, <<CH.bslash, CH.d>>) THEN POk(Drop(input, 2), DIGIT)
    ELSE PErr

\* parse_chars_single: alt((none_of("\\]"), parse_literal_escaped))
parse_chars_single(input) ==
    IF input # <<>> /\ Head(input) \notin {CH.bslash, CH.rbrack}
    THEN POk(Tail(input), Head(input))
    ELSE parse_literal_escaped(input)

\* parse_chars_range: a-b with a <= b (a > b is a Failure), or a single character
parse_chars_range(input) ==
    LET single(a) == IF a.st = "ok" THEN POk(a.rest, <<CharRange(a.val, a.val)>>) ELSE a
        pair(a, b) ==
            IF b.st = "ok"
            THEN IF a.val <= b.val THEN POk(b.rest, <<CharRange(a.val, b.val)>>) ELSE PFail
            ELSE single(a)
        first(a) ==
            IF a.st = "ok" /\ a.rest # <<>> /\ Head(a.rest) = CH.minus
            THEN pair(a, parse_chars_single(Tail(a.rest)))
            ELSE single(a)
    IN  first(parse_chars_single(input))

\* the fragment of a bracket class: alt((posix, special, range)), as a list of ranges
parse_chars_fragment(input) ==
    LET special(q) == IF q.st = "ok" THEN q ELSE parse_chars_range(input)
        posix(p) == IF p.st = "ok" THEN p ELSE special(parse_chars_special(input))
    IN  posix(parse_chars_posix(input))

\* parse_chars_brackets: fold(1.., fragment, ..)
RECURSIVE parse_chars_fold(_, _, _)
parse_chars_fold(input, ranges, count) ==
    LET fragment(f) ==
            IF f.st = "ok" THEN parse_chars_fold(f.rest, ranges \o f.val, count + 1)
            ELSE IF f.st = "fail" THEN PFail
            ELSE IF count = 0 THEN PErr
            ELSE POk(input, ranges)
    IN  fragment(parse_chars_fragment(input))

\* parse_chars_brackets: '[' fragments ']' and Chars::from_ranges
parse_chars_brackets(input) ==
    IF input = <<>> \/ Head(input) # CH.lbrack THEN PErr
    ELSE LET folded(f) ==
                 IF f.st # "ok" THEN f
                 ELSE IF f.rest = <<>> \/ Head(f.rest) # CH.rbrack THEN PErr
                 ELSE POk(Tail(f.rest), from_ranges(f.val).val)
         IN  folded(parse_chars_fold(Tail(input), <<>>, 0))

\* parse_legacy_words_err: "[:word:]" and "[:Word:]" are a Failure
parse_legacy_words_err(input) ==
    IF \/ starts_with(input, <<CH.lbrack, CH.colon, CH.w, CH.o, CH.r, CH.d, CH.colon, CH.rbrack>>)
       \/ starts_with(input, <<CH.lbrack, CH.colon, CH.W, CH.o, CH.r, CH.d, CH.colon, CH.rbrack>>)
    THEN PFail ELSE PErr

\* parse_chars
parse_chars(input) ==
    LET special(sp) == IF sp.st = "ok" THEN POk(sp.rest, from_ranges(sp.val).val) ELSE sp
        brackets(b) == IF b.st # "err" THEN b ELSE special(parse_chars_special(input))
        legacy(l) == IF l.st = "fail" THEN l ELSE brackets(parse_chars_brackets(input))
    IN  legacy(parse_legacy_words_err(input))

\* parse_generator_verbatim: is_not("\\}")
parse_generator_verbatim(input) == is_not(input, {CH.bslash, CH.rbrace})

\* parse_generator_fragment
parse_generator_fragment(input) ==
    LET escaped(e) == IF e.st = "ok" THEN POk(e.rest, <<e.val>>) ELSE e
        verbatim(v) == IF v.st = "ok" THEN v ELSE escaped(parse_literal_escaped(input))
    IN  verbatim(parse_generator_verbatim(input))

RECURSIVE parse_generator_fold(_, _, _)
parse_generator_fold(input, string, count) ==
    LET fragment(f) ==
            IF f.st = "ok" THEN parse_generator_fold(f.rest, string \o f.val, count + 1)
            ELSE IF f.st = "fail" THEN PFail
            ELSE IF count = 0 THEN PErr
            ELSE POk(input, string)
    IN  fragment(parse_generator_fragment(input))

\* parse_generator: '{', a lowercase letter ahead, the fragments, '}'
parse_generator(input) ==
    IF Len(input) < 2 \/ Head(input) # CH.lbrace \/ ~is_ascii_lowercase(input[2]) THEN PErr
    ELSE LET folded(f) ==
                 IF f.st # "ok" THEN f
                 ELSE IF f.rest = <<>> \/ Head(f.rest) # CH.rbrace THEN PErr
                 ELSE POk(Tail(f.rest), f.val)
         IN  folded(parse_generator_fold(Tail(input), <<>>, 0))

\* parse_count: the optional {a,b} / {n} / {,n} after a node
parse_count_suffix(input) ==
    LET body == Tail(input)
        upto(c) == IF c.st = "ok" THEN POk(c.rest, <<0, c.val>>) ELSE PErr
        exactly(a) ==
            IF a.st = "ok" THEN POk(a.rest, <<a.val, a.val>>)
            ELSE IF body # <<>> /\ Head(body) = CH.comma THEN upto(nom_u32(Tail(body)))
            ELSE PErr
        pair(a, b) == IF b.st = "ok" THEN POk(b.rest, <<a.val, b.val>>) ELSE exactly(a)
        first(a) ==
            IF a.st = "ok" /\ a.rest # <<>> /\ Head(a.rest) = CH.comma
            THEN pair(a, nom_u32(Tail(a.rest)))
            ELSE exactly(a)
        closed(got) ==
            IF got.st # "ok" THEN PErr
            ELSE IF got.rest = <<>> \/ Head(got.rest) # CH.rbrace THEN PErr
            ELSE POk(Tail(got.rest), got.val)
    IN  IF input = <<>> \/ Head(input) # CH.lbrace THEN PErr
        ELSE closed(first(nom_u32(body)))

RECURSIVE Node_parse(_)
RECURSIVE many1_parse_count(_, _)
RECURSIVE parse_count(_)
RECURSIVE parse_single(_)
RECURSIVE parse_list(_)

\* Node::parse: many1(parse_count); one element is returned bare, more as a List
Node_parse(input) ==
    LET many(m) ==
            IF m.st # "ok" THEN m
            ELSE IF Len(m.val) = 1 THEN POk(m.rest, m.val[1])
            ELSE POk(m.rest, List(m.val))
    IN  many(many1_parse_count(input, <<>>))

\* many1(parse_count)
many1_parse_count(input, list) ==
    LET element(c) ==
            IF c.st = "ok" THEN many1_parse_count(c.rest, Append(list, c.val))
            ELSE IF c.st = "fail" THEN PFail
            ELSE IF list = <<>> THEN PErr
            ELSE POk(input, list)
    IN  element(parse_count(input))

\* parse_count
parse_count(input) ==
    LET counted(node, count) ==
            IF count.st = "ok"
            THEN POk(count.rest, Count(node.val, count.val[1], count.val[2]))
            ELSE node
        single(node) ==
            IF node.st # "ok" THEN node ELSE counted(node, parse_count_suffix(node.rest))
    IN  single(parse_single(input))

\* parse_single: alt((literal, chars, generator, list))
parse_single(input) ==
    LET generator(g) ==
            IF g.st = "ok" THEN POk(g.rest, Generator(g.val))
            ELSE IF g.st = "fail" THEN g
            ELSE parse_list(input)
        chars_(c) ==
            IF c.st = "ok" THEN POk(c.rest, Chars(c.val))
            ELSE IF c.st = "fail" THEN c
            ELSE generator(parse_generator(input))
        literal(l) ==
            IF l.st = "ok" THEN POk(l.rest, Literal(l.val))
            ELSE IF l.st = "fail" THEN l
            ELSE chars_(parse_chars(input))
    IN  literal(parse_literal(input))

\* parse_list: '(' Node::parse ')'
parse_list(input) ==
    IF input = <<>> \/ Head(input) # CH.lparen THEN PErr
    ELSE LET group(inner) ==
                 IF inner.st # "ok" THEN inner
                 ELSE IF inner.rest = <<>> \/ Head(inner.rest) # CH.rparen THEN PErr
                 ELSE POk(Tail(inner.rest), inner.val)
         IN  group(Node_parse(Tail(input)))

\* <Node as FromStr>::from_str: the input left over is dropped; ok = FALSE is Err
from_str(input) ==
    LET finish(r) == IF r.st = "ok" THEN Ok(r.val) ELSE Panic
    IN  finish(Node_parse(input))


-----------------------------------------------------------------------------
(* repr.rs: the canonical serialization *)

\* the characters write_literal escapes with a backslash
LiteralEscaped ==
    {CH.bslash, CH.lparen, CH.rparen, CH.lbrack, CH.rbrack, CH.lbrace, CH.rbrace, CH.pipe}

\* "\\x{b:02x}"
hex_escape(b) == <<CH.bslash, CH.x, hex_digit(b \div 16), hex_digit(b % 16)>>

\* write_literal: what one byte of the string is written as
literal_byte(b) ==
    IF b \in LiteralEscaped THEN <<CH.bslash, b>>
    ELSE IF b < CH.space \/ b = CH.del THEN hex_escape(b)
    ELSE <<b>>

\* write_literal
RECURSIVE write_literal(_)
write_literal(s) ==
    IF s = <<>> THEN <<>> ELSE literal_byte(Head(s)) \o write_literal(Tail(s))

\* write_escape; char::escape_debug leaves a printable character other than \ ' " as
\* it is (the characters of the model beyond ASCII are printable)
write_escape(c) ==
    IF c < CH.space \/ c = CH.del THEN hex_escape(c)
    ELSE IF c = CH.rbrack THEN <<CH.bslash, CH.rbrack>>
    ELSE IF c \in {CH.bslash, CH.squote, CH.dquote} THEN <<CH.bslash, c>>
    ELSE <<c>>

\* fmt_charclass
fmt_charclass(cr) ==
    IF cr.end # cr.start THEN write_escape(cr.start) \o <<CH.minus>> \o write_escape(cr.end)
    ELSE write_escape(cr.start)

\* Chars::write_repr: the ranges that neither start nor end with '-', in order
RECURSIVE fmt_middle(_)
fmt_middle(ranges) ==
    IF ranges = <<>> THEN <<>>
    ELSE (IF Head(ranges).start # CH.minus /\ Head(ranges).end # CH.minus
          THEN fmt_charclass(Head(ranges)) ELSE <<>>)
         \o fmt_middle(Tail(ranges))

\* Chars::write_repr: a range starting with '-' first, one ending with '-' last
Chars_write_repr(ranges) ==
    LET first == { k \in 1..Len(ranges) : ranges[k].start = CH.minus }
        last == { k \in 1..Len(ranges) :
                    ranges[k].end = CH.minus /\ ranges[k].start # CH.minus }
        find(S) == ranges[CHOOSE k \in S : \A m \in S : k <= m]
    IN  <<CH.lbrack>>
        \o (IF first # {} THEN fmt_charclass(find(first)) ELSE <<>>)
        \o fmt_middle(ranges)
        \o (IF last # {} THEN fmt_charclass(find(last)) ELSE <<>>)
        \o <<CH.rbrack>>

\* write_sep_arg
write_sep_arg(arg) == <<CH.pipe>> \o write_literal(arg)

RECURSIVE write_sep_args(_)
write_sep_args(args) ==
    IF args = <<>> THEN <<>> ELSE write_sep_arg(Head(args)) \o write_sep_args(Tail(args))

\* fmt_with_hash: the hash first unless an argument already decodes to it
fmt_with_hash(hash, args) ==
    LET present == \E k \in 1..Len(args) :
                       hex_decode(args[k]).ok /\ hex_decode(args[k]).val = hash
    IN  (IF present THEN <<>> ELSE write_sep_arg(hex_encode(hash))) \o write_sep_args(args)

\* <Word as GeneratorFunc>::write_repr and <Words as GeneratorFunc>::write_repr
Generator_write_repr(ctx, name, args) ==
    LET h == dict_hash(args)
        hash == IF h.some THEN h.val ELSE ctx.default_dict.hash
    IN  name \o fmt_with_hash(hash, args)

\* format!("{n}") of a u32
RECURSIVE to_decimal(_)
to_decimal(v) ==
    IF v < 10 THEN <<CH.zero + v>> ELSE to_decimal(v \div 10) \o <<CH.zero + (v % 10)>>

\* ReprState::write; nested is ReprState.0 on entry, the result carries it on exit
RECURSIVE ReprState_write(_, _, _)
RECURSIVE ReprState_write_each(_, _, _)

\* list.iter().try_for_each(|node| self.write(w, node))
ReprState_write_each(nested, ctx, nodes) ==
    IF nodes = <<>> THEN [ok |-> TRUE, val |-> <<>>, nested |-> nested]
    ELSE LET h == ReprState_write(nested, ctx, Head(nodes))
             t == ReprState_write_each(h.nested, ctx, Tail(nodes))
         IN  IF ~h.ok \/ ~t.ok THEN [ok |-> FALSE, val |-> <<>>, nested |-> TRUE]
             ELSE [ok |-> TRUE, val |-> h.val \o t.val, nested |-> t.nested]

ReprState_write(nested, ctx, node) ==
    CASE node.kind = "Literal" ->
            [ok |-> TRUE, val |-> write_literal(node.s), nested |-> nested]
      [] node.kind = "Chars" ->
            [ok |-> TRUE, val |-> Chars_write_repr(node.ranges), nested |-> nested]
      [] node.kind = "List" ->
            LET inner == ReprState_write_each(TRUE, ctx, node.nodes)
            IN  IF ~inner.ok THEN inner
                ELSE [ok |-> TRUE,
                      val |-> IF nested THEN <<CH.lparen>> \o inner.val \o <<CH.rparen>>
                              ELSE inner.val,
                      nested |-> TRUE]
      [] node.kind = "Count" ->
            LET inner == ReprState_write(nested, ctx, node.node)
            IN  IF ~inner.ok THEN inner
                ELSE [inner EXCEPT !.val =
                        inner.val \o <<CH.lbrace>> \o to_decimal(node.min)
                        \o (IF node.max # node.min
                            THEN <<CH.comma>> \o to_decimal(node.max) ELSE <<>>)
                        \o <<CH.rbrace>>]
      [] node.kind = "Generator" ->
            LET g == get_generator(ctx, Generator_name(node.text))
            IN  IF ~g.ok THEN [ok |-> FALSE, val |-> <<>>, nested |-> nested]
                ELSE [ok |-> TRUE,
                      val |-> <<CH.lbrace>>
                              \o Generator_write_repr(ctx, g.val, Generator_args(node.text))
                              \o <<CH.rbrace>>,
                      nested |-> nested]

\* Expr::write_repr; ok = FALSE is the panic on an unknown generator
Expr_write_repr(root, ctx) ==
    LET r == ReprState_write(FALSE, ctx, root)
    IN  IF r.ok THEN Ok(r.val) ELSE Panic


-----------------------------------------------------------------------------
(* Parsing and the canonical repr, as Expr::parse and Display drive them: a schema
   string is parsed (or a Node is built directly), written, parsed again and written
   again.  The context is Context::default(). *)

\* bound: the number of tokens a schema string is typed from
MaxTokens == 5

\* the pieces schema strings are typed from
Tokens ==
    { <<CH.a>>, <<CH.lparen>>, <<CH.rparen>>, <<CH.lbrack, CH.a, CH.b, CH.rbrack>>,
      <<CH.lbrace, CH.two, CH.rbrace>>, <<CH.lbrace, CH.w, CH.o, CH.r, CH.d, CH.rbrace>> }

\* Nodes built without the parser
BuiltNodes ==
    { Generator(WORD_NAME),
      Generator(<<CH.w, CH.o, CH.r, CH.d, CH.colon, CH.a, CH.pipe, CH.colon, CH.b>>),
      Generator(<<CH.w, CH.o, CH.r, CH.d, CH.s, CH.pipe, CH.two, CH.pipe, CH.U>>),
      Generator(WORDS_NAME),
      Generator(WORDS_NAME \o <<CH.pipe>> \o hex_encode(DictA.hash)),
      Generator(WORDS_NAME \o <<CH.pipe>> \o hex_encode(DictA.hash) \o <<CH.pipe, CH.U>>),
      Generator(WORDS_NAME \o <<CH.pipe, CH.U, CH.pipe>> \o hex_encode(DictA.hash)),
      Generator(WORD_NAME \o <<CH.pipe>> \o hex_encode(DictD.hash)),
      Generator(WORD_NAME \o <<CH.pipe>> \o [k \in 1..(2 * HASH_LEN) |->
                                                 to_uppercase(hex_encode(DictA.hash)[k])]),
      Literal(<<CH.a, CH.pipe, CH.b>>),
      Literal(<<CH.tab, CH.lparen>>),
      Literal(<<>>),
      Chars(<<CharRange(CH.a, CH.b)>>),
      Chars(<<CharRange(CH.minus, CH.minus), CharRange(CH.a, CH.b)>>),
      List(<<Literal(Str_a), Literal(Str_b)>>),
      List(<<List(<<Literal(Str_a), Chars(<<CharRange(CH.a, CH.b)>>)>>), Literal(Str_b)>>),
      List(<<Chars(<<CharRange(CH.a, CH.b)>>),
             List(<<Literal(Str_a), Chars(<<CharRange(CH.a, CH.b)>>)>>)>>),
      Count(Literal(Str_a), 0, 1),
      Count(List(<<Chars(<<CharRange(CH.a, CH.b)>>), Chars(<<CharRange(CH.a, CH.b)>>)>>), 2, 2) }

InitRepr ==
    /\ mode = "repr"
    /\ pc = "edit"
    /\ EvalIdle
    /\ CharsIdle
    /\ UniformIdle
    /\ ReprIdle
    /\ RestIdle

\* one more token is typed
Type(tok) ==
    /\ mode = "repr"
    /\ pc = "edit"
    /\ typed < MaxTokens
    /\ typed' = typed + 1
    /\ schema' = schema \o tok
    /\ UNCHANGED <<mode, pc, ast, repr, ast2, repr2, evalVars, charsVars, uniformVars, restVars>>


\* Expr::parse of the schema string typed
Parse ==
    /\ mode = "repr"
    /\ pc = "edit"
    /\ typed > 0
    /\ ast' = from_str(schema)
    /\ pc' = IF ast'.ok THEN "parsed" ELSE "rejected"
    /\ UNCHANGED <<mode, typed, schema, repr, ast2, repr2, evalVars, charsVars, uniformVars, restVars>>

\* Expr::new of a Node built without the parser
Build(node) ==
    /\ mode = "repr"
    /\ pc = "edit"
    /\ typed = 0
    /\ ast' = Ok(node)
    /\ pc' = "parsed"
    /\ UNCHANGED <<mode, typed, schema, repr, ast2, repr2, evalVars, charsVars, uniformVars, restVars>>

\* format!("{expr}")
Repr ==
    /\ mode = "repr"
    /\ pc = "parsed"
    /\ repr' = Expr_write_repr(ast.val, CtxA)
    /\ pc' = "written"
    /\ UNCHANGED <<mode, typed, schema, ast, ast2, repr2, evalVars, charsVars, uniformVars, restVars>>

\* Expr::parse of the repr
Reparse ==
    /\ mode = "repr"
    /\ pc = "written"
    /\ repr.ok
    /\ ast2' = from_str(repr.val)
    /\ pc' = "reparsed"
    /\ UNCHANGED <<mode, typed, schema, ast, repr, repr2, evalVars, charsVars, uniformVars, restVars>>

\* format!("{expr}") of the expression parsed from the repr
ReprAgain ==
    /\ mode = "repr"
    /\ pc = "reparsed"
    /\ ast2.ok
    /\ repr2' = Expr_write_repr(ast2.val, CtxA)
    /\ pc' = "done"
    /\ UNCHANGED <<mode, typed, schema, ast, repr, ast2, evalVars, charsVars, uniformVars, restVars>>

NextRepr ==
    \/ \E tok \in Tokens : Type(tok)
    \/ Parse
    \/ \E node \in BuiltNodes : Build(node)
    \/ Repr
    \/ Reparse
    \/ ReprAgain

SpecRepr == InitRepr /\ [][NextRepr]_vars

\* the node holds a generator reference
RECURSIVE ContainsGenerator(_)
ContainsGenerator(node) ==
    CASE node.kind = "Generator" -> TRUE
      [] node.kind = "Count" -> ContainsGenerator(node.node)
      [] node.kind = "List" ->
            \E k \in 1..Len(node.nodes) : ContainsGenerator(node.nodes[k])
      [] OTHER -> FALSE

\* C3 (as stated): for every schema string the parser accepts, parsing its repr gives
\* the same AST: parse(repr(parse(s))) = parse(s).  Stated for the schemas without a
\* generator reference, whose repr adds nothing to what was typed.
C3_RoundTrip ==
    (/\ mode = "repr" /\ pc \in {"reparsed", "done"} /\ typed > 0
     /\ ~ContainsGenerator(ast.val))
    => ast2 = ast

\* C4 (as stated): for every AST x, parsed or built, repr(x) parses and
\* repr(parse(repr(x))) = repr(x).
C4_ReprFixedPoint ==
    /\ (mode = "repr" /\ pc = "reparsed") => ast2.ok
    /\ (mode = "repr" /\ pc = "done") => repr2 = repr

-----------------------------------------------------------------------------
(* fmt.rs: tab-separated values with escapes *)

\* TsvEscaper::escape that passes the backslash through
TsvEscaper_escape_keeps_backslash(b) ==
    IF b = CH.lf THEN Some(<<CH.bslash, CH.n>>)
    ELSE IF b = CH.cr THEN Some(<<CH.bslash, CH.r>>)
    ELSE IF b = CH.tab THEN Some(<<CH.bslash, CH.t>>)
    ELSE None

\* TsvEscaper::escape
TsvEscaper_escape(b) ==
    IF b = CH.bslash THEN Some(<<CH.bslash, CH.bslash>>)
    ELSE IF b = CH.lf THEN Some(<<CH.bslash, CH.n>>)
    ELSE IF b = CH.cr THEN Some(<<CH.bslash, CH.r>>)
    ELSE IF b = CH.tab THEN Some(<<CH.bslash, CH.t>>)
    ELSE None

\* TsvEscaper::write_str: the loop over s.bytes().enumerate(), taken from one escaped
\* byte to the next; w is what has been forwarded to the Formatter, pos and i are
\* 0-based as in the code
RECURSIVE TsvEscaper_write_loop(_, _, _)
TsvEscaper_write_loop(s, pos, w) ==
    LET hits == { k \in (pos + 1)..Len(s) : TsvEscaper_escape(s[k]).some }
        at(i) ==
            TsvEscaper_write_loop(s, i + 1,
                (IF pos < i THEN w \o SubSeq(s, pos + 1, i) ELSE w)
                    \o TsvEscaper_escape(s[i + 1]).val)
    IN  IF hits = {}
        THEN IF pos < Len(s) THEN w \o SubSeq(s, pos + 1, Len(s)) ELSE w
        ELSE at((CHOOSE k \in hits : \A m \in hits : k <= m) - 1)

TsvEscaper_write_str(s) == TsvEscaper_write_loop(s, 0, <<>>)

\* <TsvField as Display>::fmt: the field's Display output written through a TsvEscaper
TsvField(s) == TsvEscaper_write_str(s)

\* format_tsv_args!: "{}" for the first field, then "\t{}" for each of the rest
RECURSIVE format_tsv_build(_, _)
format_tsv_build(w, rest) ==
    IF rest = <<>> THEN w
    ELSE format_tsv_build(w \o <<CH.tab>> \o TsvField(Head(rest)), Tail(rest))

\* format_tsv!(args): at least one field
format_tsv(args) == format_tsv_build(TsvField(Head(args)), Tail(args))

-----------------------------------------------------------------------------
(* crypto.rs: the derivation record and the salt *)

\* "v3"
V3 == <<CH.v, CH.three>>

\* data.rs: Site
Site(url, username, schema_, increment) ==
    [url |-> url, username |-> username, schema |-> schema_, increment |-> increment]

\* Option::as_deref().unwrap_or("")
unwrap_or_empty(username) == IF username.some THEN username.val ELSE <<>>

\* <Derivation as Display>::fmt with a trailing newline
Derivation_fmt_newline(s) ==
    LET written(schema_) ==
            IF ~schema_.ok THEN Panic
            ELSE Ok(format_tsv(<<V3, s.url, unwrap_or_empty(s.username), schema_.val,
                                 to_decimal(s.increment)>>) \o <<CH.lf>>)
    IN  written(Expr_write_repr(s.schema, CtxA))

\* <Derivation as Display>::fmt; the schema is an Expr of the default context, and
\* ok = FALSE is a panic while it is written
Derivation_fmt(s) ==
    LET written(schema_) ==
            IF ~schema_.ok THEN Panic
            ELSE Ok(format_tsv(<<V3, s.url, unwrap_or_empty(s.username), schema_.val,
                                 to_decimal(s.increment)>>))
    IN  written(Expr_write_repr(s.schema, CtxA))

\* Blake2b256 of a message: the digest stands for the message it was computed from
Blake2b256(msg) == [blake2b256 |-> msg]

\* Site::salt
Site_salt(s) ==
    LET written(d) == IF d.ok THEN Ok(Blake2b256(d.val)) ELSE Panic
    IN  written(Derivation_fmt(s))

-----------------------------------------------------------------------------
(* format_tsv! and Derivation as their callers drive them: fields are collected and
   formatted, or a Site is made and its derivation record written *)

\* bound: the number of fields given to format_tsv!
MaxFields == 2
\* bound: the number of bytes of all the fields together
MaxFieldBytes == 2

\* the bytes the fields are made of
TsvBytes == {CH.bslash, CH.tab, CH.lf, CH.n}

\* the sites a derivation record is written for
Sites ==
    { Site(url, username, schema_, increment) :
        url \in { <<CH.a>>, <<CH.a, CH.tab, CH.b>>, <<>> },
        username \in { None, Some(<<>>), Some(<<CH.a>>), Some(<<CH.bslash, CH.n>>),
                       Some(<<CH.lf>>) },
        schema_ \in { Literal(<<CH.a>>), Literal(<<CH.a, CH.pipe, CH.b>>),
                      Literal(<<CH.tab, CH.lparen>>), Generator(WORD_NAME),
                      Generator(<<CH.f, CH.o, CH.o>>),
                      Count(Chars(<<CharRange(CH.a, CH.b)>>), 0, 12) },
        increment \in {0, 1, 12} }

InitTsv ==
    /\ mode = "tsv"
    /\ pc = "edit"
    /\ EvalIdle
    /\ CharsIdle
    /\ UniformIdle
    /\ ReprIdle
    /\ RestIdle

\* the bytes of all the fields together
RECURSIVE FieldBytes(_)
FieldBytes(fs) == IF fs = <<>> THEN 0 ELSE Len(Head(fs)) + FieldBytes(Tail(fs))

\* one more field is given
NextField ==
    /\ mode = "tsv"
    /\ pc = "edit"
    /\ Len(fields) < MaxFields
    /\ fields' = Append(fields, <<>>)
    /\ UNCHANGED <<mode, pc, record, site, derivation, evalVars, charsVars, uniformVars,
                   reprVars, dictVars, ctxVars,
                   moreVars>>

\* the last field is one byte longer
PushByte(b) ==
    /\ mode = "tsv"
    /\ pc = "edit"
    /\ fields # <<>>
    /\ FieldBytes(fields) < MaxFieldBytes
    /\ fields' = [fields EXCEPT ![Len(fields)] = Append(@, b)]
    /\ UNCHANGED <<mode, pc, record, site, derivation, evalVars, charsVars, uniformVars,
                   reprVars, dictVars, ctxVars,
                   moreVars>>

\* format_tsv!(fields...)
FormatTsv ==
    /\ mode = "tsv"
    /\ pc = "edit"
    /\ fields # <<>>
    /\ record' = Ok(format_tsv(fields))
    /\ pc' = "formatted"
    /\ UNCHANGED <<mode, fields, site, derivation, evalVars, charsVars, uniformVars,
                   reprVars, dictVars, ctxVars,
                   moreVars>>

\* Site { url, username, schema, increment }
NewSite(s) ==
    /\ mode = "tsv"
    /\ pc = "edit"
    /\ fields = <<>>
    /\ site' = Ok(s)
    /\ pc' = "site"
    /\ UNCHANGED <<mode, fields, record, derivation, evalVars, charsVars, uniformVars,
                   reprVars, dictVars, ctxVars,
                   moreVars>>

\* format!("{}", Derivation(&site))
Derive ==
    /\ mode = "tsv"
    /\ pc = "site"
    /\ derivation' = Derivation_fmt(site.val)
    /\ pc' = "derived"
    /\ UNCHANGED <<mode, fields, record, site, evalVars, charsVars, uniformVars,
                   reprVars, dictVars, ctxVars,
                   moreVars>>

NextTsv ==
    \/ NextField
    \/ \E b \in TsvBytes : PushByte(b)
    \/ FormatTsv
    \/ \E s \in Sites : NewSite(s)
    \/ Derive

SpecTsv == InitTsv /\ [][NextTsv]_vars

\* the string a TSV field stands for: each two-character escape read back
RECURSIVE UnescapedFrom(_, _, _)
UnescapedFrom(s, pos, acc) ==
    LET hits == { k \in pos..(Len(s) - 1) : s[k] = CH.bslash }
        at(i) ==
            LET c == s[i + 1]
                b == IF c = CH.n THEN CH.lf
                     ELSE IF c = CH.r THEN CH.cr
                     ELSE IF c = CH.t THEN CH.tab
                     ELSE c
            IN  UnescapedFrom(s, i + 2, Append(acc \o SubSeq(s, pos, i - 1), b))
    IN  IF hits = {} THEN acc \o SubSeq(s, pos, Len(s))
        ELSE at(CHOOSE k \in hits : \A m \in hits : k <= m)

Unescaped(s) == UnescapedFrom(s, 1, <<>>)

\* the number a string of decimal digits stands for, or -1
RECURSIVE DecimalValue(_, _)
DecimalValue(s, acc) ==
    IF s = <<>> THEN acc
    ELSE IF ~is_ascii_digit(Head(s)) THEN -1
    ELSE DecimalValue(Tail(s), 10 * acc + (Head(s) - CH.zero))

\* the site with an absent username in place of an empty one, and the reverse
UsernameTwin(s) ==
    IF ~s.username.some THEN [s EXCEPT !.username = Some(<<>>)]
    ELSE IF s.username.val = <<>> THEN [s EXCEPT !.username = None]
    ELSE s

RECURSIVE StringsOfLen(_)
StringsOfLen(k) ==
    IF k = 0 THEN {<<>>}
    ELSE { Append(s, b) : s \in StringsOfLen(k - 1), b \in TsvBytes }

\* the tuples of nf fields that hold no more than budget bytes together
RECURSIVE TuplesWithin(_, _)
TuplesWithin(nf, budget) ==
    IF nf = 0 THEN {<<>>}
    ELSE UNION { { <<s>> \o t : s \in StringsOfLen(k),
                                t \in TuplesWithin(nf - 1, budget - k) } :
                 k \in 0..budget }

\* C12: format_tsv is injective on tuples of the same number of fields: a tuple that
\* formats to the string just returned is, field by field, the tuple that was formatted.
C12_FormatTsvInjective ==
    (mode = "tsv" /\ pc = "formatted") =>
        \A other \in TuplesWithin(Len(fields), MaxFieldBytes) :
            format_tsv(other) = record.val => other = fields

\* C12 witness: two fields were formatted, one a TAB and one a backslash
C12_Witness ==
    /\ mode = "tsv" /\ pc = "formatted"
    /\ fields = << <<CH.tab>>, <<CH.bslash>> >>
    /\ record.val = <<CH.bslash, CH.t, CH.tab, CH.bslash, CH.bslash>>

-----------------------------------------------------------------------------
(* The canonical serialization of a generator reference *)

\* the arguments that do not decode to the hash, in order
RECURSIVE NonHashArgs(_, _)
NonHashArgs(args, hash) ==
    IF args = <<>> THEN <<>>
    ELSE (IF hex_decode(Head(args)).ok /\ hex_decode(Head(args)).val = hash
          THEN <<>> ELSE <<Head(args)>>)
             \o NonHashArgs(Tail(args), hash)

\* name, then "|" and the lowercase hex hash, then each non-hash argument after a "|"
CanonicalGenerator(name, hash, args) ==
    <<CH.lbrace>> \o name \o <<CH.pipe>> \o hex_encode(hash)
        \o write_sep_args(NonHashArgs(args, hash)) \o <<CH.rbrace>>

\* the hash of the dictionary a word / words reference will use
UsedHash(args, ctx) == IF dict_hash(args).some THEN dict_hash(args).val ELSE ctx.default_dict.hash

\* C13: the serialization of a word / words generator is the name, "|" and the hex hash
\* of the dictionary it will use, then every non-hash argument in order after a "|":
\* the hash is there once, directly after the name, wherever the user wrote it.
C13_GeneratorReprCanonical ==
    (/\ mode = "repr" /\ pc = "written" /\ repr.ok
     /\ ast.val.kind = "Generator"
     /\ Generator_name(ast.val.text) \in {WORD_NAME, WORDS_NAME})
    => repr.val = CanonicalGenerator(Generator_name(ast.val.text),
                                     UsedHash(Generator_args(ast.val.text), CtxA),
                                     Generator_args(ast.val.text))

-----------------------------------------------------------------------------
(* The parser on schema strings that hold reserved or reversed syntax: Expr::parse
   of a string typed from pieces with a bare "|", an escaped one, count suffixes with
   their bounds in either order, and a reversed character range *)

\* bound: the number of pieces such a schema string is typed from
MaxParseTokens == 3

\* the pieces
ParseTokens ==
    { <<CH.a>>, <<CH.pipe>>, <<CH.bslash, CH.pipe>>,
      <<CH.lbrace, CH.two, CH.comma, CH.one, CH.rbrace>>,
      <<CH.lbrace, CH.one, CH.comma, CH.two, CH.rbrace>>,
      <<CH.lbrack, CH.b, CH.minus, CH.a, CH.rbrack>>,
      <<CH.lparen>>, <<CH.rparen>>,
      <<CH.lbrace, CH.w, CH.o, CH.r, CH.d, CH.pipe, CH.U, CH.rbrace>> }

InitParse ==
    /\ mode = "parse"
    /\ pc = "edit"
    /\ EvalIdle
    /\ CharsIdle
    /\ UniformIdle
    /\ ReprIdle
    /\ RestIdle

\* one more piece of the input of Expr::parse is typed
TypeSchema(tok) ==
    /\ mode = "parse"
    /\ pc = "edit"
    /\ typed < MaxParseTokens
    /\ typed' = typed + 1
    /\ schema' = schema \o tok
    /\ UNCHANGED <<mode, pc, ast, repr, ast2, repr2, evalVars, charsVars, uniformVars, restVars>>

\* Expr::parse(schema): Node::from_str, then Expr::new
ParseSchema ==
    /\ mode = "parse"
    /\ pc = "edit"
    /\ ast' = from_str(schema)
    /\ pc' = IF ast'.ok THEN "parsed" ELSE "rejected"
    /\ UNCHANGED <<mode, typed, schema, repr, ast2, repr2, evalVars, charsVars, uniformVars, restVars>>

NextParse ==
    \/ \E tok \in ParseTokens : TypeSchema(tok)
    \/ ParseSchema

SpecParse == InitParse /\ [][NextParse]_vars

\* the string holds, from position i on, a "|" that is neither escaped by a backslash
\* nor inside braces (depth counts the braces open at i)
RECURSIVE BarePipeFrom(_, _, _)
BarePipeFrom(s, i, depth) ==
    IF i > Len(s) THEN FALSE
    ELSE CASE s[i] = CH.bslash -> BarePipeFrom(s, i + 2, depth)
           [] s[i] = CH.lbrace -> BarePipeFrom(s, i + 1, depth + 1)
           [] s[i] = CH.rbrace -> BarePipeFrom(s, i + 1, IF depth > 0 THEN depth - 1 ELSE 0)
           [] s[i] = CH.pipe /\ depth = 0 -> TRUE
           [] OTHER -> BarePipeFrom(s, i + 1, depth)

BarePipe(s) == BarePipeFrom(s, 1, 0)

\* every Count node of the tree has min <= max
RECURSIVE CountsOrdered(_)
CountsOrdered(node) ==
    CASE node.kind = "Count" -> node.min <= node.max /\ CountsOrdered(node.node)
      [] node.kind = "List" -> \A k \in 1..Len(node.nodes) : CountsOrdered(node.nodes[k])
      [] OTHER -> TRUE

\* C14: a schema string with a bare "|" outside a generator's braces is rejected:
\* parsing it never returns an AST.
C14_BarePipeRejected ==
    (mode = "parse" /\ pc \in {"parsed", "rejected"} /\ BarePipe(schema)) => ~ast.ok

\* C15: every Count node of an AST the parser returned has 0 <= min <= max.
C15_CountMinLeMax ==
    (mode = "parse" /\ pc = "parsed") => CountsOrdered(ast.val)

-----------------------------------------------------------------------------
(* The dictionary builder: BoxDict::from_iter, from_lines and from_sep *)

\* char::is_whitespace (the White_Space property)
is_whitespace(c) ==
    \/ CH.tab <= c /\ c <= CH.cr
    \/ c \in {CH.space, 133, 160, 5760, 8232, 8233, 8239, 8287, 12288}
    \/ 8192 <= c /\ c <= 8202

\* <str as Ord>::lt: byte-wise lexicographic order
StrLess(a, b) ==
    \E k \in 1..Len(b) :
        /\ \A j \in 1..(k - 1) : j <= Len(a) /\ a[j] = b[j]
        /\ (k > Len(a) \/ a[k] < b[k])

\* one step of the sort: x put after the elements of the sorted run that are not above it
sort_insert(x, run) ==
    LET put(k) == SubSeq(run, 1, k) \o <<x>> \o SubSeq(run, k + 1, Len(run))
    IN  put(Cardinality({ i \in 1..Len(run) : ~StrLess(x, run[i]) }))

\* the sort left out: the items in the order given
sort_unstable_none(items) == items

\* items.sort_unstable()
RECURSIVE sort_unstable(_)
sort_unstable(items) ==
    IF items = <<>> THEN <<>> ELSE sort_insert(Head(items), sort_unstable(Tail(items)))

\* the dedup left out: repeated items kept
dedup_none(items) == items

\* items.dedup(): of each run of equal consecutive items the first is kept
RECURSIVE dedup(_)
dedup(items) ==
    IF Len(items) <= 1 THEN items
    ELSE (IF items[1] = items[2] THEN <<>> ELSE <<items[1]>>) \o dedup(Tail(items))

\* iter.filter(|&l| !l.is_empty())
filter_non_empty(iter) == SelectSeq(iter, LAMBDA l : l # <<>>)

\* <Lines as Display>::fmt: each line followed by "\n"
RECURSIVE Lines(_)
Lines(lines) ==
    IF lines = <<>> THEN <<>> ELSE Head(lines) \o <<CH.lf>> \o Lines(Tail(lines))

\* BoxDict(items, hash)
BoxDict(items, hash) == [words |-> items, hash |-> hash]

\* BoxDict::from_iter
BoxDict_from_iter(iter) ==
    LET hashed(items) ==
            BoxDict(items, Blake2b256(Lines([k \in 1..Len(items) |-> TsvField(items[k])])))
    IN  hashed(dedup(sort_unstable(filter_non_empty(iter))))

\* str::trim
trim(s) ==
    LET cut(keep) ==
            IF keep = {} THEN <<>>
            ELSE SubSeq(s, CHOOSE i \in keep : \A m \in keep : i <= m,
                           CHOOSE i \in keep : \A m \in keep : i >= m)
    IN  cut({ i \in 1..Len(s) : ~is_whitespace(s[i]) })

\* a line str::lines found before a "\n": a "\r" at its end is dropped
strip_cr(line) ==
    IF line # <<>> /\ line[Len(line)] = CH.cr THEN SubSeq(line, 1, Len(line) - 1) ELSE line

\* str::lines
RECURSIVE str_lines(_)
str_lines(s) ==
    LET at(hits) ==
            IF hits = {} THEN <<s>>
            ELSE LET cutAt(i) == <<strip_cr(SubSeq(s, 1, i - 1))>>
                                     \o str_lines(SubSeq(s, i + 1, Len(s)))
                 IN  cutAt(CHOOSE i \in hits : \A m \in hits : i <= m)
    IN  IF s = <<>> THEN <<>> ELSE at({ i \in 1..Len(s) : s[i] = CH.lf })

\* str::split with a non-empty string pattern
RECURSIVE str_split(_, _)
str_split(s, sep) ==
    LET at(hits) ==
            IF hits = {} THEN <<s>>
            ELSE LET cutAt(i) == <<SubSeq(s, 1, i - 1)>>
                                     \o str_split(SubSeq(s, i + Len(sep), Len(s)), sep)
                 IN  cutAt(CHOOSE i \in hits : \A m \in hits : i <= m)
    IN  at({ i \in 1..(Len(s) - Len(sep) + 1) : SubSeq(s, i, i + Len(sep) - 1) = sep })

\* s.lines().map(str::trim)
lines_trimmed(s) == LET mapped(ls) == [k \in 1..Len(ls) |-> trim(ls[k])] IN mapped(str_lines(s))

\* BoxDict::from_lines
BoxDict_from_lines(s) == BoxDict_from_iter(lines_trimmed(s))

\* BoxDict::from_sep
BoxDict_from_sep(s, sep) == BoxDict_from_iter(str_split(s, sep))

\* bound: the length of the string given to from_lines / from_sep
MaxTextBytes == 3
\* bound: the number of tokens given to from_iter
MaxItems == 3

\* the bytes of the strings given to from_lines / from_sep
TextBytes == {CH.a, CH.b, CH.lf, CH.space}
\* the separators given to from_sep
Separators == { <<CH.space>>, <<CH.lf, CH.lf>> }
\* the tokens given to from_iter
ItemTokens == { <<>>, Str_a, Str_b, Str_ab, <<CH.a, CH.tab>> }

InitDict ==
    /\ mode = "dict"
    /\ pc = "edit"
    /\ EvalIdle
    /\ CharsIdle
    /\ UniformIdle
    /\ ReprIdle
    /\ RestIdle

\* the string for from_lines / from_sep is one byte longer
PushText(b) ==
    /\ mode = "dict"
    /\ pc = "edit"
    /\ items_in = <<>>
    /\ Len(dict_text) < MaxTextBytes
    /\ dict_text' = Append(dict_text, b)
    /\ UNCHANGED <<mode, pc, items_in, box_dict, evalVars, charsVars, uniformVars, reprVars,
                   tsvVars, ctxVars,
                   moreVars>>

\* the iterator for from_iter yields one more token
PushItem(tok) ==
    /\ mode = "dict"
    /\ pc = "edit"
    /\ dict_text = <<>>
    /\ Len(items_in) < MaxItems
    /\ items_in' = Append(items_in, tok)
    /\ UNCHANGED <<mode, pc, dict_text, box_dict, evalVars, charsVars, uniformVars, reprVars,
                   tsvVars, ctxVars,
                   moreVars>>

\* BoxDict::from_iter(items_in)
FromIter ==
    /\ mode = "dict"
    /\ pc = "edit"
    /\ dict_text = <<>>
    /\ box_dict' = Ok(BoxDict_from_iter(items_in))
    /\ pc' = "built"
    /\ UNCHANGED <<mode, dict_text, items_in, evalVars, charsVars, uniformVars, reprVars,
                   tsvVars, ctxVars,
                   moreVars>>

\* BoxDict::from_lines(dict_text): from_iter is given the trimmed lines
FromLines ==
    /\ mode = "dict"
    /\ pc = "edit"
    /\ items_in = <<>>
    /\ items_in' = lines_trimmed(dict_text)
    /\ box_dict' = Ok(BoxDict_from_lines(dict_text))
    /\ pc' = "built"
    /\ UNCHANGED <<mode, dict_text, evalVars, charsVars, uniformVars, reprVars, tsvVars, ctxVars,
                   moreVars>>

\* BoxDict::from_sep(dict_text, sep): from_iter is given the pieces between separators
FromSep(sep) ==
    /\ mode = "dict"
    /\ pc = "edit"
    /\ items_in = <<>>
    /\ items_in' = str_split(dict_text, sep)
    /\ box_dict' = Ok(BoxDict_from_sep(dict_text, sep))
    /\ pc' = "built"
    /\ UNCHANGED <<mode, dict_text, evalVars, charsVars, uniformVars, reprVars, tsvVars, ctxVars,
                   moreVars>>

NextDict ==
    \/ \E b \in TextBytes : PushText(b)
    \/ \E tok \in ItemTokens : PushItem(tok)
    \/ FromIter
    \/ FromLines
    \/ \E sep \in Separators : FromSep(sep)

SpecDict == InitDict /\ [][NextDict]_vars

\* the elements of a sequence
Range(s) == { s[k] : k \in 1..Len(s) }

\* the token sequences of up to n tokens that hold the non-empty tokens of items, in any
\* order, any of them repeated, with empty tokens anywhere
Rearrangements(items, n) ==
    LET over(toks) ==
            { other \in UNION { [1..k -> toks \cup {<<>>}] : k \in 0..n } :
                  Range(other) \ {<<>>} = toks }
    IN  over(Range(items) \ {<<>>})

\* C16: the words of a dictionary the builder returned are strictly increasing in byte
\* order (sorted, no duplicates) and none of them is the empty string.
C16_WordsStrictlyIncreasing ==
    (mode = "dict" /\ pc = "built") =>
        /\ \A k \in 1..(Len(box_dict.val.words) - 1) :
               StrLess(box_dict.val.words[k], box_dict.val.words[k + 1])
        /\ \A k \in 1..Len(box_dict.val.words) : box_dict.val.words[k] # <<>>

\* C16 witness: from_iter was given b, a, b and returned the words a, b
C16_Witness ==
    /\ mode = "dict" /\ pc = "built"
    /\ items_in = <<Str_b, Str_a, Str_b>>
    /\ box_dict.val.words = <<Str_a, Str_b>>

\* C17: a token sequence with the same set of non-empty tokens as the one the builder
\* was given (another order, repetitions, empty tokens) builds a dictionary with the
\* same words and the same hash.
C17_OrderAndMultiplicityIndependent ==
    (mode = "dict" /\ pc = "built") =>
        \A other \in Rearrangements(items_in, MaxItems) :
            /\ BoxDict_from_iter(other).words = box_dict.val.words
            /\ BoxDict_from_iter(other).hash = box_dict.val.hash

\* C17 witness: from_lines was given "b\na" and returned the dictionary of a, b
C17_Witness ==
    /\ mode = "dict" /\ pc = "built"
    /\ dict_text = <<CH.b, CH.lf, CH.a>>
    /\ items_in = <<Str_b, Str_a>>
    /\ box_dict.val = BoxDict_from_iter(<<Str_a, <<>>, Str_b>>)

-----------------------------------------------------------------------------
(* Generator references the context does not resolve *)

\* the generator reference names a generator the context does not bind, or a dictionary
\* hash the context does not hold
Unresolved(text, ctx) ==
    \/ ~get_generator(ctx, Generator_name(text)).ok
    \/ ~get_dict(ctx, dict_hash(Generator_args(text))).ok

\* C19: an expression that names a generator not bound in the context, or a dictionary
\* hash that does not resolve in it, does not abort the process in size(): the call
\* returns to its caller, which reports the error as a value.
C19_UnresolvedReferenceNoAbort ==
    (/\ mode = "eval" /\ pc = "sized"
     /\ expr.kind = "Generator"
     /\ Unresolved(expr.text, context))
    => sz.ok

-----------------------------------------------------------------------------
(* context.rs: the Context values alive and the Arc allocations of their
   hash-to-dictionary tables.  A Context holds its table as Arc<HashMap>: arcs[p] is an
   allocation with its strong count and its table, and a Context's dict field is the
   index of one.  The generator table is never mutated and is kept by value. *)

\* Arc::clone: one more strong reference to the allocation p
Arc_clone(heap, p) == [heap EXCEPT ![p].strong = @ + 1]

\* Arc::make_mut on a reference to p: the allocation itself when the reference is the
\* only one, otherwise a new allocation holding a clone of the table, the reference
\* to p given up
Arc_make_mut(heap, p) ==
    IF heap[p].strong = 1 THEN [heap |-> heap, ptr |-> p]
    ELSE [heap |-> Append([heap EXCEPT ![p].strong = @ - 1],
                          [strong |-> 1, table |-> heap[p].table]),
          ptr |-> Len(heap) + 1]

\* HashMap::extend with (hash, dict) pairs: an entry of the same hash is replaced
RECURSIVE HashMap_extend(_, _)
HashMap_extend(table, ds) ==
    IF ds = <<>> THEN table
    ELSE HashMap_extend({ x \in table : x.hash # Head(ds).hash } \cup {Head(ds)}, Tail(ds))

\* Context::new(generator, dict, default_dict)
Context_new(heap, generator, dict, default_dict) ==
    [heap |-> Append(heap, [strong |-> 1,
                            table |-> HashMap_extend({}, <<default_dict>> \o dict)]),
     ctx |-> [generator |-> generator, dict |-> Len(heap) + 1, default_dict |-> default_dict]]

\* Context::with_default_dict: the heap afterwards and the Context returned
Context_with_default_dict(heap, self, default_dict) ==
    LET extended(m) ==
            [heap |-> [m.heap EXCEPT ![m.ptr].table = HashMap_extend(@, <<default_dict>>)],
             ctx |-> [generator |-> self.generator, dict |-> m.ptr,
                      default_dict |-> default_dict]]
    IN  extended(Arc_make_mut(Arc_clone(heap, self.dict), self.dict))

\* <Context as Extend>::extend: the heap afterwards and the receiver afterwards
Context_extend(heap, self, iter) ==
    LET extended(m) ==
            [heap |-> [m.heap EXCEPT ![m.ptr].table = HashMap_extend(@, iter)],
             ctx |-> [self EXCEPT !.dict = m.ptr]]
    IN  extended(Arc_make_mut(heap, self.dict))

\* <Context as Clone>::clone
Context_clone(heap, self) == [heap |-> Arc_clone(heap, self.dict), ctx |-> self]

\* the Context as get_generator and get_dict see it
ContextView(heap, c) ==
    [generator |-> c.generator, dict |-> heap[c.dict].table, default_dict |-> c.default_dict]

\* bound: the number of Context values alive
MaxContexts == 3

\* the dictionaries contexts are built from
CtxDicts == {DictA, DictC, DictD}

InitContext ==
    /\ mode = "ctx"
    /\ pc = "start"
    /\ EvalIdle
    /\ CharsIdle
    /\ UniformIdle
    /\ ReprIdle
    /\ RestIdle

\* let c = Context::new([Word, Words], [], d)
NewContext(d) ==
    /\ mode = "ctx"
    /\ Len(contexts) < MaxContexts
    /\ LET r == Context_new(arcs, Generators, <<>>, d)
       IN  /\ arcs' = r.heap
           /\ contexts' = Append(contexts, r.ctx)
    /\ last_call' = [self |-> 0, ret |-> Len(contexts) + 1, dict |-> d, before |-> contexts]
    /\ pc' = "new"
    /\ UNCHANGED <<mode, evalVars, charsVars, uniformVars, reprVars, tsvVars, dictVars,
                   moreVars>>

\* let c = contexts[i].with_default_dict(d)
WithDefaultDict(i, d) ==
    /\ mode = "ctx"
    /\ i \in 1..Len(contexts)
    /\ Len(contexts) < MaxContexts
    /\ LET r == Context_with_default_dict(arcs, contexts[i], d)
       IN  /\ arcs' = r.heap
           /\ contexts' = Append(contexts, r.ctx)
    /\ last_call' = [self |-> i, ret |-> Len(contexts) + 1, dict |-> d, before |-> contexts]
    /\ pc' = "with_default_dict"
    /\ UNCHANGED <<mode, evalVars, charsVars, uniformVars, reprVars, tsvVars, dictVars,
                   moreVars>>

\* contexts[i].extend([d])
Extend(i, d) ==
    /\ mode = "ctx"
    /\ i \in 1..Len(contexts)
    /\ LET r == Context_extend(arcs, contexts[i], <<d>>)
       IN  /\ arcs' = r.heap
           /\ contexts' = [contexts EXCEPT ![i] = r.ctx]
    /\ last_call' = [self |-> i, ret |-> 0, dict |-> d, before |-> contexts]
    /\ pc' = "extend"
    /\ UNCHANGED <<mode, evalVars, charsVars, uniformVars, reprVars, tsvVars, dictVars,
                   moreVars>>

\* let c = contexts[i].clone()
CloneContext(i) ==
    /\ mode = "ctx"
    /\ i \in 1..Len(contexts)
    /\ Len(contexts) < MaxContexts
    /\ LET r == Context_clone(arcs, contexts[i])
       IN  /\ arcs' = r.heap
           /\ contexts' = Append(contexts, r.ctx)
    /\ last_call' = [self |-> i, ret |-> Len(contexts) + 1, dict |-> contexts[i].default_dict,
                     before |-> contexts]
    /\ pc' = "clone"
    /\ UNCHANGED <<mode, evalVars, charsVars, uniformVars, reprVars, tsvVars, dictVars,
                   moreVars>>

NextContext ==
    \/ \E d \in CtxDicts : NewContext(d)
    \/ \E i \in 1..MaxContexts, d \in CtxDicts : WithDefaultDict(i, d)
    \/ \E i \in 1..MaxContexts, d \in CtxDicts : Extend(i, d)
    \/ \E i \in 1..MaxContexts : CloneContext(i)

SpecContext == InitContext /\ [][NextContext]_vars

\* C20: after c.with_default_dict(d) the dictionary d resolves by its hash in the
\* receiver c and in the returned context; d is the default of the returned context,
\* and the receiver's default is the one it had.
C20_WithDefaultDictAddsToBoth ==
    (mode = "ctx" /\ pc = "with_default_dict") =>
        /\ get_dict(ContextView(arcs, contexts[last_call.self]),
                    SomeHash(last_call.dict.hash)) = Ok(last_call.dict)
        /\ get_dict(ContextView(arcs, contexts[last_call.ret]),
                    SomeHash(last_call.dict.hash)) = Ok(last_call.dict)
        /\ contexts[last_call.ret].default_dict = last_call.dict
        /\ contexts[last_call.self].default_dict
               = last_call.before[last_call.self].default_dict

-----------------------------------------------------------------------------
(* The buffers of secret_uniform that held a draw *)

\* C21: the byte array the RNG filled holds no drawn bytes once a candidate has been
\* rejected or returned: after each iteration of the loop it is wiped.
C21_DrawBufferWiped ==
    (mode = "uniform" /\ (rejections > 0 \/ (pc = "done" /\ n_bytes > 0)))
    => \A k \in 1..Len(ret) : ret[k] = 0

-----------------------------------------------------------------------------
(* conf/src/lib.rs: Config::from_global_site and Config::find_site.
   url::normalize is the url crate's; the model takes it as a table normalize_of from
   the urls in use to a normalized url or an error, fixed during a behaviour.
   Indices into Config.site count from 1 here and from 0 in the source. *)

\* RawSite { url, username, schema, increment }
RawSite(url, username, schema_, increment) ==
    [url |-> url, username |-> username, schema |-> schema_, increment |-> increment]

\* Global { default_schema, use_keyring, alias }; alias is a function on the names bound
Global(default_schema, use_keyring_, alias) ==
    [default_schema |-> default_schema, use_keyring |-> use_keyring_, alias |-> alias]

\* Err(e) of normalize, from_global_site and find_site
ConfErr(tag, usernames) == [ok |-> FALSE, val |-> [tag |-> tag, usernames |-> usernames]]

\* <Option<String> as Ord>::lt: None below Some
OptStrLess(a, b) == IF ~a.some THEN b.some ELSE b.some /\ StrLess(a.val, b.val)

\* <(String, Option<String>) as Ord>::lt
KeyLess(k1, k2) == StrLess(k1[1], k2[1]) \/ (k1[1] = k2[1] /\ OptStrLess(k1[2], k2[2]))

\* Option<NonZero<u32>>::None
NoIncrement == [some |-> FALSE, val |-> 0]

\* cmp::max on Option<NonZero<u32>>
OptMax(a, b) ==
    IF ~a.some THEN b
    ELSE IF ~b.some THEN a
    ELSE IF b.val >= a.val THEN b ELSE a

\* the loop of from_global_site with the entry of key k found at the indices hit; the
\* BTreeMap is the sequence of its entries in key order
RECURSIVE from_global_site_loop(_, _, _)
from_global_site_merge(map, raw_site, k, hit, rest, norm) ==
    IF hit = {}
    THEN LET put(at) ==
                 SubSeq(map, 1, at)
                     \o << [key |-> k, url |-> raw_site.url, schema |-> raw_site.schema,
                            increment |-> raw_site.increment] >>
                     \o SubSeq(map, at + 1, Len(map))
         IN  from_global_site_loop(
                 put(Cardinality({ i \in 1..Len(map) : KeyLess(map[i].key, k) })), rest, norm)
    ELSE LET update(i) ==
                 [map EXCEPT ![i] =
                     [key |-> k, url |-> raw_site.url,
                      schema |-> IF raw_site.schema.some THEN raw_site.schema ELSE @.schema,
                      increment |-> OptMax(@.increment, raw_site.increment)]]
         IN  from_global_site_loop(update(CHOOSE i \in hit : TRUE), rest, norm)

\* for site in site { .. }: the map afterwards, or the error of normalize
from_global_site_loop(map, sites, norm) ==
    IF sites = <<>> THEN Ok(map)
    ELSE LET step(raw_site, normal) ==
                 IF ~normal.ok THEN ConfErr("Site", <<>>)
                 ELSE from_global_site_merge(
                          map, raw_site, <<normal.val, raw_site.username>>,
                          { i \in 1..Len(map) : map[i].key = <<normal.val, raw_site.username>> },
                          Tail(sites), norm)
         IN  step(Head(sites), norm[Head(sites).url])

\* the Config made of the merged map
Config_of(global, map) ==
    [global |-> global,
     site |-> [i \in 1..Len(map) |->
                  RawSite(map[i].url, map[i].key[2], map[i].schema, map[i].increment)],
     site_by_url |->
         [u \in { map[i].key[1] : i \in 1..Len(map) } |->
             CHOOSE i \in 1..Len(map) :
                 map[i].key[1] = u /\ (i = 1 \/ map[i - 1].key[1] # u)],
     site_by_key |->
         [k \in { map[i].key : i \in 1..Len(map) } |->
             CHOOSE i \in 1..Len(map) : map[i].key = k]]

\* Config::from_global_site
from_global_site(global, sites, norm) ==
    LET built(m) == IF m.ok THEN Ok(Config_of(global, m.val)) ELSE m
    IN  built(from_global_site_loop(<<>>, sites, norm))

\* "{words}"
DEFAULT_SCHEMA == <<CH.lbrace>> \o WORDS_NAME \o <<CH.rbrace>>

\* Config::resolve_schema
resolve_schema(cfg, name) ==
    IF name \in DOMAIN cfg.global.alias THEN cfg.global.alias[name] ELSE name

\* Config::default_schema
default_schema(cfg) ==
    resolve_schema(cfg, IF cfg.global.default_schema.some THEN cfg.global.default_schema.val
                        ELSE DEFAULT_SCHEMA)

\* find_site_raw_range with the range taken to the end of the sites
find_site_raw_range_to_end(cfg, first, later) ==
    LET usernames(last) ==
            IF last = first THEN Ok(cfg.site[first])
            ELSE IF \E i \in first..last : ~cfg.site[i].username.some THEN Panic
            ELSE ConfErr("MultipleChoices", [j \in 1..(last - first + 1) |->
                                                 cfg.site[first + j - 1].username.val])
    IN  usernames(Len(cfg.site))

\* find_site_raw from the lookup in site_by_url on: first is the index of the first
\* site of the url, later the urls of site_by_url above it
find_site_raw_range(cfg, first, later) ==
    LET usernames(last) ==
            IF last = first THEN Ok(cfg.site[first])
            ELSE IF \E i \in first..last : ~cfg.site[i].username.some THEN Panic
            ELSE ConfErr("MultipleChoices", [j \in 1..(last - first + 1) |->
                                                 cfg.site[first + j - 1].username.val])
    IN  usernames(IF later = {} THEN Len(cfg.site)
                  ELSE cfg.site_by_url[CHOOSE u \in later :
                                           \A w \in later : u = w \/ StrLess(u, w)] - 1)

\* Config::find_site_raw
find_site_raw(cfg, url, username) ==
    IF <<url, username>> \in DOMAIN cfg.site_by_key
    THEN Ok(cfg.site[cfg.site_by_key[<<url, username>>]])
    ELSE IF username.some
    THEN (IF <<url, None>> \in DOMAIN cfg.site_by_key
          THEN Ok([cfg.site[cfg.site_by_key[<<url, None>>]] EXCEPT !.username = username])
          ELSE ConfErr("UsernameNotFound", <<>>))
    ELSE IF url \notin DOMAIN cfg.site_by_url THEN ConfErr("UrlNotFound", <<>>)
    ELSE find_site_raw_range(cfg, cfg.site_by_url[url],
                             { u \in DOMAIN cfg.site_by_url : StrLess(url, u) })

\* Config::find_site
find_site(cfg, url, username, norm) ==
    LET resolved(r) ==
            IF ~r.ok THEN r
            ELSE Ok([r.val EXCEPT !.schema =
                        Some(IF @.some THEN resolve_schema(cfg, @.val)
                             ELSE default_schema(cfg))])
        raw(normal) ==
            IF ~normal.ok THEN ConfErr("Site", <<>>)
            ELSE resolved(find_site_raw(cfg, normal.val, username))
    IN  raw(norm[url])

\* bound: the number of RawSites given to from_global_site
MaxSites == 3

\* the urls in use and what normalize can make of them
URL_A == <<CH.a>>
URL_B == <<CH.b>>
RawUrls == {URL_A, URL_B}
NormalizeErr == [ok |-> FALSE, val |-> <<>>]
NormalizeChoices ==
    { [u \in RawUrls |-> Ok(u \o <<CH.slash>>)],
      [u \in RawUrls |-> Ok(<<CH.a, CH.slash>>)],
      [u \in RawUrls |-> IF u = URL_A THEN Ok(<<CH.a, CH.slash>>) ELSE NormalizeErr] }

\* the usernames of sites, and those asked for
SiteUsernames == {None, Some(<<CH.u>>), Some(<<CH.v>>)}
QueryUsernames == {None, Some(<<CH.u>>), Some(<<CH.w>>)}

\* the sites given
RawSites ==
    { RawSite(url, username, p[1], p[2]) :
        url \in RawUrls, username \in SiteUsernames,
        p \in { <<None, NoIncrement>>, <<Some(<<CH.s>>), Some(2)>> } }

\* Option<bool>::None
NoFlag == [some |-> FALSE, val |-> FALSE]

\* the global settings given
Globals ==
    { Global(None, NoFlag, <<>>),
      Global(Some(<<CH.d>>), Some(TRUE), (<<CH.s>> :> <<CH.t>>)) }

InitConf ==
    /\ mode = "conf"
    /\ pc = "edit"
    /\ EvalIdle
    /\ CharsIdle
    /\ UniformIdle
    /\ ReprIdle
    /\ TsvIdle
    /\ DictIdle
    /\ CtxIdle
    /\ SeedIdle
    /\ LateIdle
    /\ normalize_of \in NormalizeChoices
    /\ sites_in = <<>>
    /\ config = Panic
    /\ query = Panic
    /\ found = Panic

\* one more [[site]] entry
AddSite(s) ==
    /\ mode = "conf"
    /\ pc = "edit"
    /\ Len(sites_in) < MaxSites
    /\ sites_in' = Append(sites_in, s)
    /\ UNCHANGED <<mode, pc, normalize_of, config, query, found, evalVars, charsVars,
                   uniformVars, reprVars, tsvVars, dictVars, ctxVars, seedVars, lateVars>>

\* Config::from_global_site(global, sites_in)
FromGlobalSite(global) ==
    /\ mode = "conf"
    /\ pc = "edit"
    /\ config' = from_global_site(global, sites_in, normalize_of)
    /\ pc' = IF config'.ok THEN "loaded" ELSE "failed"
    /\ UNCHANGED <<mode, normalize_of, sites_in, query, found, evalVars, charsVars,
                   uniformVars, reprVars, tsvVars, dictVars, ctxVars, seedVars, lateVars>>

\* config.find_site(url, username)
FindSite(url, username) ==
    /\ mode = "conf"
    /\ pc = "loaded"
    /\ query' = [url |-> url, username |-> username]
    /\ found' = find_site(config.val, url, username, normalize_of)
    /\ pc' = "found"
    /\ UNCHANGED <<mode, normalize_of, sites_in, config, evalVars, charsVars,
                   uniformVars, reprVars, tsvVars, dictVars, ctxVars, seedVars, lateVars>>

NextConf ==
    \/ \E s \in RawSites : AddSite(s)
    \/ \E global \in Globals : FromGlobalSite(global)
    \/ \E url \in RawUrls, username \in QueryUsernames : FindSite(url, username)

SpecConf == InitConf /\ [][NextConf]_vars

-----------------------------------------------------------------------------
(* The resolution order of Config::find_site, stated on the entries of the Config *)

\* the entries of the Config whose url normalizes to the normalized url asked for
EntriesAt(cfg, normal) ==
    { i \in 1..Len(cfg.site) : normalize_of[cfg.site[i].url] = Ok(normal) }

\* the site returned is entry i carrying the username given, its schema resolved
ReturnsEntry(res, cfg, i, username) ==
    /\ res.ok
    /\ res.val.url = cfg.site[i].url
    /\ res.val.username = username
    /\ res.val.increment = cfg.site[i].increment
    /\ res.val.schema = Some(IF cfg.site[i].schema.some
                             THEN resolve_schema(cfg, cfg.site[i].schema.val)
                             ELSE default_schema(cfg))

\* the error returned has the tag given
ReturnsError(res, tag) == ~res.ok /\ res.val.tag = tag

\* the resolution order on the entries at the url: exact match, then the entry without
\* a username, then the only entry of the url
ResolvesInOrder(res, cfg, at, username) ==
    IF \E i \in at : cfg.site[i].username = username
    THEN \E i \in at : cfg.site[i].username = username /\ ReturnsEntry(res, cfg, i, username)
    ELSE IF username.some
    THEN (IF \E i \in at : ~cfg.site[i].username.some
          THEN \E i \in at : ~cfg.site[i].username.some /\ ReturnsEntry(res, cfg, i, username)
          ELSE ReturnsError(res, "UsernameNotFound"))
    ELSE IF at = {} THEN ReturnsError(res, "UrlNotFound")
    ELSE IF Cardinality(at) = 1
    THEN \E i \in at : ReturnsEntry(res, cfg, i, cfg.site[i].username)
    ELSE /\ ReturnsError(res, "MultipleChoices")
         /\ Len(res.val.usernames) = Cardinality(at)
         /\ { res.val.usernames[j] : j \in 1..Len(res.val.usernames) }
                = { cfg.site[i].username.val : i \in at }

\* C22: find_site(url, username) returns the entry of the normalized url with the given
\* username; otherwise, for a given username, the entry without a username carrying the
\* requested one, else UsernameNotFound; for no username, the only entry of the url, or
\* MultipleChoices with the usernames of all its entries, or UrlNotFound when none.
C22_FindSiteResolutionOrder ==
    (mode = "conf" /\ pc = "found" /\ normalize_of[query.url].ok) =>
        ResolvesInOrder(found, config.val,
                        EntriesAt(config.val, normalize_of[query.url].val), query.username)

\* C22 witness: a username no entry has was asked for at a url that has an entry
\* without a username and one with another username; the former was returned
C22_Witness ==
    /\ mode = "conf" /\ pc = "found"
    /\ normalize_of[query.url].ok
    /\ query.username = Some(<<CH.w>>)
    /\ Cardinality(EntriesAt(config.val, normalize_of[query.url].val)) = 2
    /\ found.ok
    /\ found.val.username = Some(<<CH.w>>)
    /\ found.val.increment = Some(2)

-----------------------------------------------------------------------------
(* src/seed_password/mod.rs: read, as main calls it.  The OS keyring and the console
   are outside the program: a keyring operation may fail, getpass may fail, and the
   console yields whatever is typed.  io_log records each operation that succeeded. *)

\* check_confirm that accepts any confirmation
check_confirm_always(confirmed, pw) == TRUE

\* check_confirm, given the confirmation getpass returned: Ok(*confirmed == password)
check_confirm(confirmed, pw) == confirmed = pw

\* what read returns: Ok(password) or the error
ReadOk(pw) == [ok |-> TRUE, val |-> pw, err |-> ""]
ReadErr(err) == [ok |-> FALSE, val |-> <<>>, err |-> err]

\* one operation on the keyring or the console
IoEvent(op, val) == [op |-> op, val |-> val]

\* what can be typed at the console, and what the keyring can hold before the call
Typed == {Str_a, Str_b, Str_ab}
Stored == {None, Some(Str_a), Some(Str_b)}

InitSeed ==
    /\ mode = "seed"
    /\ pc = "main"
    /\ EvalIdle
    /\ CharsIdle
    /\ UniformIdle
    /\ ReprIdle
    /\ TsvIdle
    /\ DictIdle
    /\ CtxIdle
    /\ ConfIdle
    /\ LateIdle
    /\ use_keyring = FALSE
    /\ confirm = FALSE
    /\ keyring_entry \in Stored
    /\ password = None
    /\ io_log = <<>>
    /\ read_result = Panic

\* seed_password::delete(), called for --reset-keyring
Delete(fails) ==
    /\ mode = "seed"
    /\ pc = "main"
    /\ IF fails
       THEN /\ pc' = "failed"
            /\ UNCHANGED <<keyring_entry, io_log>>
       ELSE /\ keyring_entry' = None
            /\ io_log' = Append(io_log, IoEvent("delete_credential", <<>>))
            /\ pc' = "reset"
    /\ UNCHANGED <<mode, use_keyring, confirm, password, read_result, evalVars, charsVars,
                   uniformVars, reprVars, tsvVars, dictVars, ctxVars, confVars, lateVars>>

\* read(use_keyring, confirm), its first statement:
\* let password = use_keyring.then(load_keyring).transpose()?.flatten()
LoadKeyring(k, c, fails) ==
    /\ mode = "seed"
    /\ pc \in {"main", "reset"}
    /\ use_keyring' = k
    /\ confirm' = c
    /\ IF ~k
       THEN /\ password' = None
            /\ pc' = "loaded"
            /\ UNCHANGED <<io_log, read_result>>
       ELSE IF fails
       THEN /\ read_result' = ReadErr("keyring")
            /\ pc' = "failed"
            /\ UNCHANGED <<password, io_log>>
       ELSE /\ password' = keyring_entry
            /\ io_log' = Append(io_log, IoEvent("get_password", keyring_entry))
            /\ pc' = "loaded"
            /\ UNCHANGED read_result
    /\ UNCHANGED <<mode, keyring_entry, evalVars, charsVars,
                   uniformVars, reprVars, tsvVars, dictVars, ctxVars, confVars, lateVars>>

\* if let Some(password) = password { .. }: the confirmation of a stored password and
\* the return; typed is what getpass yields, fails its failure
ReturnStored(typed_, fails) ==
    /\ mode = "seed"
    /\ pc = "loaded"
    /\ password.some
    /\ IF ~confirm
       THEN /\ read_result' = ReadOk(password.val)
            /\ pc' = "returned"
            /\ UNCHANGED io_log
       ELSE IF fails
       THEN /\ read_result' = ReadErr("failed reading confirmation")
            /\ pc' = "failed"
            /\ UNCHANGED io_log
       ELSE /\ io_log' = Append(io_log, IoEvent("Confirmation", Some(typed_)))
            /\ IF check_confirm(typed_, password.val)
               THEN /\ read_result' = ReadOk(password.val)
                    /\ pc' = "returned"
               ELSE /\ read_result' = ReadErr("passwords don't match")
                    /\ pc' = "failed"
    /\ UNCHANGED <<mode, use_keyring, confirm, keyring_entry, password, evalVars, charsVars,
                   uniformVars, reprVars, tsvVars, dictVars, ctxVars, confVars, lateVars>>

\* let password = getpass(c"Seed password: ")?
GetPass(typed_, fails) ==
    /\ mode = "seed"
    /\ pc = "loaded"
    /\ ~password.some
    /\ IF fails
       THEN /\ read_result' = ReadErr("failed reading password")
            /\ pc' = "failed"
            /\ UNCHANGED <<password, io_log>>
       ELSE /\ password' = Some(typed_)
            /\ io_log' = Append(io_log, IoEvent("Seed password", Some(typed_)))
            /\ pc' = "typed"
            /\ UNCHANGED read_result
    /\ UNCHANGED <<mode, use_keyring, confirm, keyring_entry, evalVars, charsVars,
                   uniformVars, reprVars, tsvVars, dictVars, ctxVars, confVars, lateVars>>

\* if (use_keyring || confirm) && !check_confirm(&password)? { bail }
ConfirmTyped(typed_, fails) ==
    /\ mode = "seed"
    /\ pc = "typed"
    /\ IF ~(use_keyring \/ confirm)
       THEN /\ pc' = "checked"
            /\ UNCHANGED <<io_log, read_result>>
       ELSE IF fails
       THEN /\ read_result' = ReadErr("failed reading confirmation")
            /\ pc' = "failed"
            /\ UNCHANGED io_log
       ELSE /\ io_log' = Append(io_log, IoEvent("Confirmation", Some(typed_)))
            /\ IF check_confirm(typed_, password.val)
               THEN /\ pc' = "checked"
                    /\ UNCHANGED read_result
               ELSE /\ read_result' = ReadErr("passwords don't match")
                    /\ pc' = "failed"
    /\ UNCHANGED <<mode, use_keyring, confirm, keyring_entry, password, evalVars, charsVars,
                   uniformVars, reprVars, tsvVars, dictVars, ctxVars, confVars, lateVars>>

\* if use_keyring { save_keyring(&password)? }  Ok(password)
SaveAndReturn(fails) ==
    /\ mode = "seed"
    /\ pc = "checked"
    /\ IF ~use_keyring
       THEN /\ read_result' = ReadOk(password.val)
            /\ pc' = "returned"
            /\ UNCHANGED <<keyring_entry, io_log>>
       ELSE IF fails
       THEN /\ read_result' = ReadErr("failed setting password")
            /\ pc' = "failed"
            /\ UNCHANGED <<keyring_entry, io_log>>
       ELSE /\ keyring_entry' = password
            /\ io_log' = Append(io_log, IoEvent("set_password", password))
            /\ read_result' = ReadOk(password.val)
            /\ pc' = "returned"
    /\ UNCHANGED <<mode, use_keyring, confirm, password, evalVars, charsVars,
                   uniformVars, reprVars, tsvVars, dictVars, ctxVars, confVars, lateVars>>

NextSeed ==
    \/ \E fails \in BOOLEAN : Delete(fails)
    \/ \E k \in BOOLEAN, c \in BOOLEAN, fails \in BOOLEAN : LoadKeyring(k, c, fails)
    \/ \E typed_ \in Typed, fails \in BOOLEAN : ReturnStored(typed_, fails)
    \/ \E typed_ \in Typed, fails \in BOOLEAN : GetPass(typed_, fails)
    \/ \E typed_ \in Typed, fails \in BOOLEAN : ConfirmTyped(typed_, fails)
    \/ \E fails \in BOOLEAN : SaveAndReturn(fails)

SpecSeed == InitSeed /\ [][NextSeed]_vars

\* the operations that obtained a password: the keyring yielding one, or it being typed
Obtained(ev, pw) ==
    /\ ev.op \in {"get_password", "Seed password"}
    /\ ev.val = Some(pw)

\* C23: when read was called with confirm = true and returned a password, a
\* confirmation equal to it was read from the console after the password had been
\* obtained (from the keyring or typed); and when the confirmation did not match, read
\* failed and nothing was stored in the keyring.
C23_ConfirmedBeforeReturn ==
    /\ (mode = "seed" /\ pc = "returned" /\ confirm) =>
           \E i \in 1..Len(io_log) : \E j \in (i + 1)..Len(io_log) :
               /\ Obtained(io_log[i], read_result.val)
               /\ io_log[j] = IoEvent("Confirmation", Some(read_result.val))
    /\ (/\ mode = "seed"
        /\ \E j \in 1..Len(io_log) :
               /\ io_log[j].op = "Confirmation"
               /\ io_log[j].val # password)
       => /\ pc = "failed"
          /\ ~read_result.ok
          /\ \A j \in 1..Len(io_log) : io_log[j].op # "set_password"

\* C23 witness: the keyring held a password, read(true, true) read a matching
\* confirmation from the console and returned the password
C23_Witness ==
    /\ mode = "seed" /\ pc = "returned"
    /\ use_keyring /\ confirm
    /\ io_log = << IoEvent("get_password", Some(Str_a)), IoEvent("Confirmation", Some(Str_a)) >>
    /\ read_result = ReadOk(Str_a)

-----------------------------------------------------------------------------
(* Count rendering against the index ranges of the repetition counts *)

\* the repetition counts k in [min, max] whose index range holds the index: the
\* renderings of fewer than k copies are below it, those of k copies reach past it
CountCopies(b, min, max, index) ==
    { k \in min..max : GeomSum(b, min, k - 1) <= index /\ index < GeomSum(b, min, k) }

\* the renderings of the child at the k lowest base-b digits of rem, lowest first
DigitRenderings(child, ctx, b, k, rem) ==
    [i \in 1..k |-> Node_write_to(child, ctx, (rem \div CapPow(b, i - 1)) % b)]

\* the rendering is the k digit renderings in order, and nothing of rem is left above them
RendersDigits(res, parts, b, k, rem) ==
    /\ rem \div CapPow(b, k) = 0
    /\ (\A i \in 1..k : parts[i].ok) => res = Ok(Concat([i \in 1..k |-> parts[i].val]))

\* C24: a Count over a child of size b >= 2, rendered at an index below its size, emits
\* k child renderings for the one k in [min, max] with
\* b^min + .. + b^(k-1) <= index < b^min + .. + b^k; they are the renderings at the
\* base-b digits of the remaining index, lowest digit first, and no index remains.
C24_CountRendersDigits ==
    (/\ mode = "eval" /\ pc = "written"
     /\ expr.kind = "Count"
     /\ Node_size(expr.node, context).ok
     /\ Node_size(expr.node, context).val >= 2)
    => LET checked(b, ks) ==
               /\ Cardinality(ks) = 1
               /\ \A k \in ks :
                      RendersDigits(out,
                          DigitRenderings(expr.node, context, b, k,
                                          idx - GeomSum(b, expr.min, k - 1)),
                          b, k, idx - GeomSum(b, expr.min, k - 1))
       IN  checked(Node_size(expr.node, context).val,
                   CountCopies(Node_size(expr.node, context).val, expr.min, expr.max, idx))

\* C24 witness: [ab]{1,2} rendered at index 3 gives "ba": two copies, digits 1 and 0
C24_Witness ==
    /\ mode = "eval" /\ pc = "written"
    /\ expr = Count(Chars(<<CharRange(CH.a, CH.b)>>), 1, 2)
    /\ idx = 3
    /\ out = Ok(<<CH.b, CH.a>>)

-----------------------------------------------------------------------------
(* List size and rendering against the mixed-radix reading of the index *)

\* the exact product of the first k sizes
RECURSIVE ProductBefore(_, _)
ProductBefore(sizes, k) == IF k = 0 THEN 1 ELSE ProductBefore(sizes, k - 1) * sizes[k].val

\* the renderings of the children at the mixed-radix digits of the index, first child lowest
MixedRadixRenderings(nodes, ctx, sizes, index) ==
    [i \in 1..Len(nodes) |->
        Node_write_to(nodes[i], ctx, (index \div ProductBefore(sizes, i - 1)) % sizes[i].val)]

\* what C25 says of a List whose children have the sizes given
ListReadsMixedRadix(sizes) ==
    /\ sz = Ok(Min(ProductBefore(sizes, Len(sizes)), U256_MAX))
    /\ pc = "written" =>
          LET rendered(parts) ==
                  (\A i \in 1..Len(parts) : parts[i].ok)
                  => out = Ok(Concat([i \in 1..Len(parts) |-> parts[i].val]))
          IN  /\ idx \div ProductBefore(sizes, Len(sizes)) = 0
              /\ rendered(MixedRadixRenderings(expr.nodes, context, sizes, idx))

\* C25: the size of a List is the saturating product of its children's sizes; at an index
\* below it, child i is rendered at (index div (s_0 * .. * s_(i-1))) mod s_i, the first
\* child being the least significant, and the quotient left after the last child is zero.
C25_ListMixedRadix ==
    (/\ mode = "eval" /\ pc \in {"sized", "written"}
     /\ expr.kind = "List"
     /\ \A i \in 1..Len(expr.nodes) : Node_size(expr.nodes[i], context).ok)
    => ListReadsMixedRadix([i \in 1..Len(expr.nodes) |-> Node_size(expr.nodes[i], context)])

\* C25 witness: a List whose product of sizes passes U256::MAX, rendered at the last
\* index below its saturated size with a second child off its first rendering
C25_Witness ==
    /\ mode = "eval" /\ pc = "written"
    /\ expr.kind = "List"
    /\ \A i \in 1..Len(expr.nodes) : Node_size(expr.nodes[i], context).ok
    /\ ProductBefore([i \in 1..Len(expr.nodes) |-> Node_size(expr.nodes[i], context)],
                     Len(expr.nodes)) > U256_MAX
    /\ sz = Ok(U256_MAX)
    /\ idx = U256_MAX - 1
    /\ out.ok
    /\ Node_write_to(expr.nodes[2], context, 0).ok
    /\ Node_write_to(expr.nodes[1], context, idx % Node_size(expr.nodes[1], context).val).val
         \o Node_write_to(expr.nodes[2], context, 0).val # out.val

-----------------------------------------------------------------------------
(* The words generator against the positional reading of the index *)

\* the words joined by the separator
RECURSIVE JoinWords(_, _)
JoinWords(ws, sep) ==
    IF ws = <<>> THEN <<>>
    ELSE IF Len(ws) = 1 THEN Head(ws)
    ELSE Head(ws) \o sep \o JoinWords(Tail(ws), sep)

\* word i (from 0) of the phrase at the quotient q, capitalised when it is the word chosen
PhraseWord(words, b, q, i, capital) ==
    LET word == words[((q \div CapPow(b, i)) % b) + 1]
    IN  IF capital THEN <<to_uppercase(Head(word))>> \o Tail(word) ELSE word

\* the phrase of n words of the dictionary at the index
Phrase(words, n, sep, upper, index) ==
    JoinWords([i \in 1..n |->
                  PhraseWord(words, Len(words), IF upper THEN index \div n ELSE index,
                             i - 1, upper /\ i - 1 = index % n)],
              sep)

\* what C26 says of a words generator with the parsed arguments pa over the dictionary
WordsReadPositional(pa, words) ==
    /\ sz = Ok(IF pa.upper
                 THEN Min(CapPow(Len(words), pa.count) * pa.count, U256_MAX)
                 ELSE Min(CapPow(Len(words), pa.count), U256_MAX))
    /\ pc = "written" =>
          /\ (IF pa.upper THEN idx \div pa.count ELSE idx) \div CapPow(Len(words), pa.count) = 0
          /\ out = Ok(Phrase(words, pa.count, pa.sep, pa.upper, idx))

\* C26: a words generator over a dictionary of b words with count n >= 1 has size b^n,
\* times n with the argument U, saturating; at every index below it the output is n words
\* joined by the separator, word i being words[(q div b^i) mod b] with q = index div n
\* under U and q = index otherwise, the word at position index mod n capitalised under U
\* and no other, and nothing of q is left after the n words.
C26_WordsPositional ==
    (/\ mode = "eval" /\ pc \in {"sized", "written"}
     /\ expr.kind = "Generator"
     /\ get_generator(context, Generator_name(expr.text)) = Ok(WORDS_NAME)
     /\ Words_parse_args(Generator_args(expr.text)).ok
     /\ get_dict(context, dict_hash(Generator_args(expr.text))).ok)
    => WordsReadPositional(Words_parse_args(Generator_args(expr.text)).val,
                           get_dict(context, dict_hash(Generator_args(expr.text))).val.words)

-----------------------------------------------------------------------------
(* Termination of the rejection-sampling loop of secret_uniform *)

\* the bit length of n: the least B with n < 2^B
BitLength(n) == CHOOSE B \in 0..16 : n < Pow2(B) /\ (B = 0 \/ n >= Pow2(B - 1))

IsPowerOfTwo(n) == \E k \in 0..16 : n = Pow2(k)

\* the values of the candidates of one iteration
CandidateValues == { from_le_bytes(c) : c \in Candidates }

\* in the loop: the candidates are below 2^B, below 2^(B-1) and all accepted when n is a
\* power of two, and at least half of the candidate values are accepted
LoopCandidatesBounded ==
    (mode = "uniform" /\ pc = "loop") =>
        LET bounded(vs, bits) ==
                /\ \A v \in vs : v < Pow2(bits)
                /\ IsPowerOfTwo(n_arg) => \A v \in vs : accepts(v, n_arg)
                /\ 2 * Cardinality({ v \in vs : accepts(v, n_arg) }) >= Cardinality(vs)
        IN  bounded(CandidateValues,
                    IF IsPowerOfTwo(n_arg) THEN BitLength(n_arg) - 1 ELSE BitLength(n_arg))

\* nothing but the iteration is repeated: a step taken in the loop leaves the sample
\* width, the byte count and the mask alone and stays in the loop or returns
OnlyLoopRetried ==
    [][(mode = "uniform" /\ pc = "loop")
       => (pc' \in {"loop", "done"} /\ UNCHANGED <<n_arg, n_bits, n_bytes, hi_mask>>)]_vars

\* C27: the rejection-sampling loop is the only retried step and it ends: each masked
\* candidate is below 2^B (2^(B-1) for n a power of two, where the first candidate is
\* accepted), at least half of the candidate values are accepted, and with an RNG that
\* does not withhold them for ever a candidate below n is drawn and returned.
C27_LoopTerminates ==
    /\ []LoopCandidatesBounded
    /\ OnlyLoopRetried
    /\ (mode = "uniform") ~> (mode = "uniform" /\ pc = "done" /\ result < n_arg)

\* C27 witness: a value was returned after the largest count of rejections for an n
\* just above a power of two, where nearly half of the candidates are rejected
C27_Witness ==
    /\ mode = "uniform" /\ pc = "done"
    /\ n_arg = 17
    /\ rejections = MaxRejections
    /\ result = 0

-----------------------------------------------------------------------------
(* The character set of a Chars built by from_ranges *)

\* the characters at which membership in a union of the ranges tried can change: the
\* range ends tried and their neighbours
ProbeChars == { x \in { c + d : c \in RangeChars, d \in {-1, 0, 1} } : IsChar(x) }

\* the characters among the probes that the ranges cover
Covered(ranges) ==
    { x \in ProbeChars : \E k \in 1..Len(ranges) : ranges[k].start <= x /\ x <= ranges[k].end }

\* C28: from_ranges preserves the character set: for a non-empty list of ranges with
\* start <= end the output ranges cover the characters the input ranges cover, no more
\* and no fewer, also when a range ends at U+D7FF, U+D799 or char::MAX and others follow.
C28_FromRangesPreservesSet ==
    (mode = "chars" /\ pc = "built") =>
        (chars.ok /\ Covered(chars.val) = Covered(ranges_in))

-----------------------------------------------------------------------------
(* crypto.rs: Site::password from the buffer on.  The rendering reaches the buffer
   through write_all calls (Literal) and write! (every other node), each handing over
   a whole str; the buffer is the 2 KiB vector at the model's length. *)

\* bound: the length of the buffer (vec![0u8; 2048])
BufLen == 4

\* results of Site::password
PasswordOk(bytes) == [ok |-> TRUE, val |-> bytes, err |-> ""]
PasswordErr(e) == [ok |-> FALSE, val |-> <<>>, err |-> e]

\* <&mut [u8] as io::Write>::write: copies what fits, advances the slice
slice_write(b, pos, data) ==
    LET n == Min(Len(data), Len(b) - pos)
    IN  [n |-> n,
         pos |-> pos + n,
         buf |-> [k \in 1..Len(b) |-> IF pos < k /\ k <= pos + n THEN data[k - pos] ELSE b[k]]]

\* a write_all that reports success whatever write copied
write_all_lossy(b, pos, data) ==
    [ok |-> TRUE, pos |-> slice_write(b, pos, data).pos, buf |-> slice_write(b, pos, data).buf]

\* <&mut [u8] as io::Write>::write_all: an error unless write copied all of data
write_all(b, pos, data) ==
    [ok |-> slice_write(b, pos, data).n = Len(data),
     pos |-> slice_write(b, pos, data).pos,
     buf |-> slice_write(b, pos, data).buf]

\* buf.iter().position(|&b| b == 0), 0-based; Len(b) stands for None
position_zero(b) ==
    IF \E k \in 1..Len(b) : b[k] = 0
    THEN (CHOOSE k \in 1..Len(b) : b[k] = 0 /\ \A j \in 1..(k - 1) : b[j] # 0) - 1
    ELSE Len(b)

\* str::from_utf8(..).is_ok() on bytes below 0xE0: ASCII, or a lead byte 0xC2..0xDF
\* with one continuation byte
RECURSIVE from_utf8_ok(_)
from_utf8_ok(bytes) ==
    IF bytes = <<>> THEN TRUE
    ELSE IF Head(bytes) < 128 THEN from_utf8_ok(Tail(bytes))
    ELSE /\ 194 <= Head(bytes) /\ Head(bytes) <= 223
         /\ Len(bytes) >= 2
         /\ 128 <= bytes[2] /\ bytes[2] <= 191
         /\ from_utf8_ok(Tail(Tail(bytes)))

\* the strs a node hands to the writer: empty, ASCII, a two-byte character, with NUL
WrittenStrs ==
    { <<>>, <<CH.a>>, <<CH.a, CH.b>>, <<CH.b, CH.a, CH.b>>, <<195, 169>>, <<0>>,
      <<CH.a, 0, CH.b>> }

InitPassword ==
    /\ mode = "password"
    /\ pc = "write_to"
    /\ EvalIdle
    /\ CharsIdle
    /\ UniformIdle
    /\ ReprIdle
    /\ TsvIdle
    /\ DictIdle
    /\ CtxIdle
    /\ ConfIdle
    /\ SeedIdle
    /\ FileIdle
    /\ buf = [k \in 1..BufLen |-> 0]
    /\ buf_pos = 0
    /\ rendering = <<>>
    /\ password_out = PasswordErr("none")

\* one write of schema.write_to; its error is returned by the `?`
WriteAll(data) ==
    /\ mode = "password"
    /\ pc = "write_to"
    /\ LET done(w) ==
               /\ buf' = w.buf
               /\ buf_pos' = w.pos
               /\ IF w.ok
                  THEN UNCHANGED <<pc, password_out>>
                  ELSE pc' = "returned" /\ password_out' = PasswordErr("WriteZero")
       IN  done(write_all(buf, buf_pos, data))
    /\ rendering' = rendering \o data
    /\ UNCHANGED <<mode, evalVars, charsVars, uniformVars, reprVars, tsvVars, dictVars,
                   ctxVars, confVars, seedVars, fileVars>>

\* schema.write_to has returned Ok: truncate at the first zero byte, check UTF-8, return
ReturnPassword ==
    /\ mode = "password"
    /\ pc = "write_to"
    /\ LET checked(truncated) ==
               password_out' = IF from_utf8_ok(truncated) THEN PasswordOk(truncated)
                               ELSE PasswordErr("Utf8")
       IN  checked(SubSeq(buf, 1, position_zero(buf)))
    /\ pc' = "returned"
    /\ UNCHANGED <<mode, buf, buf_pos, rendering, evalVars, charsVars, uniformVars,
                   reprVars, tsvVars, dictVars, ctxVars, confVars, seedVars, fileVars>>

NextPassword == (\E data \in WrittenStrs : WriteAll(data)) \/ ReturnPassword

SpecPassword == InitPassword /\ [][NextPassword]_vars

\* C29: Site::password does not shorten a password because of the buffer: a rendering
\* that fits in the buffer, also one that fills it, and holds no NUL byte is returned
\* byte for byte, and a rendering longer than the buffer makes password return an error.
C29_NoSilentTruncation ==
    (mode = "password" /\ pc = "returned") =>
        /\ (Len(rendering) <= BufLen /\ \A k \in 1..Len(rendering) : rendering[k] # 0)
               => password_out = PasswordOk(rendering)
        /\ Len(rendering) > BufLen => ~password_out.ok

\* C29 witness: a rendering of exactly the buffer's length, written in several pieces
\* one of them a two-byte character, is returned whole
C29_Witness ==
    /\ mode = "password" /\ pc = "returned"
    /\ Len(rendering) = BufLen
    /\ \E k \in 1..Len(rendering) : rendering[k] = 195
    /\ password_out = PasswordOk(rendering)

-----------------------------------------------------------------------------
(* conf/src/lib.rs: Config::from_file.  A path is a directory and a name, the directory
   empty for a relative path; the file system is the table disk of the files at their
   canonical paths, and one symbolic link. *)

Path(dir, name) == [dir |-> dir, name |-> name]

\* the config files, by canonical path
FILE_A == Path("d1", "a")
FILE_B == Path("d1", "b")
FILE_C == Path("d2", "b")

\* a symbolic link d2/a to d1/a
LINK_A == Path("d2", "a")

IoErr == ConfErr("Io", <<>>)

\* Path::is_absolute
is_absolute(p) == p.dir # ""

\* Config::resolve_path: an absolute path as it is, a relative one in the directory of
\* base_path
resolve_path(base_path, p) == IF is_absolute(p) THEN p ELSE Path(base_path.dir, p.name)

\* Path::canonicalize on the file system d: the link followed, an error for no file
canonicalize(d, p) ==
    LET found_(q) == IF q \in DOMAIN d THEN [ok |-> TRUE, val |-> q]
                     ELSE [ok |-> FALSE, val |-> q]
    IN  found_(IF p = LINK_A THEN FILE_A ELSE p)

\* DiskConfig::from_file: the file's content, an error when it is no valid TOML
DiskConfig_from_file(d, p) == [ok |-> d[p].valid, val |-> d[p]]

\* DiskConfig { include, global, site }; valid: the text deserializes
DiskConfig(valid, include, global_, site_) ==
    [valid |-> valid, include |-> include, global |-> global_, site |-> site_]

\* Global::merge (words_path is not part of the model's Global)
Global_merge(self, other) ==
    [default_schema |-> IF other.default_schema.some THEN other.default_schema
                        ELSE self.default_schema,
     use_keyring |-> IF other.use_keyring.some THEN other.use_keyring ELSE self.use_keyring,
     alias |-> other.alias @@ self.alias]

\* a test that takes no path for visited
visited_contains_never(v, p) == FALSE

\* visited.contains(&path)
visited_contains(v, p) == p \in v

\* include.into_iter().map(|p| Config::resolve_path(&path, p))
resolve_all(base_path, include) ==
    [k \in 1..Len(include) |-> resolve_path(base_path, include[k])]

\* url::normalize on the urls of the files
FileNormalize == [u \in RawUrls |-> Ok(u \o <<CH.slash>>)]

\* the include lists tried, by file: none, relative and absolute names, both orders of
\* two files, names that lead back to the file itself or (through the link) to the
\* first file, a file that does not exist
IncludeLists(p) ==
    IF p = FILE_A
    THEN { <<>>, <<Path("", "b")>>, <<Path("", "b"), FILE_C>>, <<FILE_C, Path("", "b")>>,
           <<Path("", "x")>> }
    ELSE IF p = FILE_B
    THEN { <<>>, <<Path("", "a")>>, <<Path("", "b")>>, <<FILE_C>> }
    ELSE { <<>>, <<Path("", "a")>>, <<Path("", "b")>>, <<FILE_B>>, <<Path("", "x")>> }

\* the sites and global settings a file may hold
FileSites(p) ==
    IF p = FILE_A
    THEN { <<RawSite(URL_A, None, Some(<<CH.s>>), Some(2))>>,
           <<RawSite(URL_A, None, None, NoIncrement), RawSite(URL_B, None, None, Some(1))>> }
    ELSE IF p = FILE_B
    THEN { <<RawSite(URL_A, None, Some(<<CH.t>>), Some(1))>>,
           <<RawSite(URL_B, None, Some(<<CH.t>>), NoIncrement)>> }
    ELSE { <<RawSite(URL_A, None, None, Some(3))>>,
           <<RawSite(URL_A, None, Some(<<CH.u>>), NoIncrement)>> }

FileGlobals(p) == IF p = FILE_C THEN Globals ELSE { Global(None, NoFlag, <<>>) }

FileContents(p) ==
    { DiskConfig(valid, include, g, s) :
        valid \in (IF p = FILE_C THEN BOOLEAN ELSE {TRUE}),
        include \in IncludeLists(p), g \in FileGlobals(p), s \in FileSites(p) }

InitFromFile ==
    /\ mode = "from_file"
    /\ pc = "start"
    /\ EvalIdle
    /\ CharsIdle
    /\ UniformIdle
    /\ ReprIdle
    /\ TsvIdle
    /\ DictIdle
    /\ CtxIdle
    /\ ConfIdle
    /\ SeedIdle
    /\ PassIdle
    /\ \E ca \in FileContents(FILE_A), cb \in FileContents(FILE_B),
          cc \in FileContents(FILE_C) :
           disk = [p \in {FILE_A, FILE_B, FILE_C} |->
                      IF p = FILE_A THEN ca ELSE IF p = FILE_B THEN cb ELSE cc]
    /\ includes = <<>>
    /\ visited = {}
    /\ merged_global = Global(None, NoFlag, <<>>)
    /\ merged_site = <<>>
    /\ reads = <<>>
    /\ from_file_out = Panic

\* from_file up to the loop: the base path canonicalized, the base file read
Open(base_path) ==
    /\ mode = "from_file"
    /\ pc = "start"
    /\ LET opened(path, cfg) ==
               IF ~path.ok \/ ~cfg.ok
               THEN /\ pc' = "returned"
                    /\ from_file_out' = IoErr
                    /\ UNCHANGED <<includes, visited, merged_global, merged_site, reads>>
               ELSE /\ includes' = resolve_all(path.val, cfg.val.include)
                    /\ merged_global' = cfg.val.global
                    /\ merged_site' = cfg.val.site
                    /\ visited' = {path.val}
                    /\ reads' = <<path.val>>
                    /\ pc' = "loop"
                    /\ UNCHANGED from_file_out
           at(path) ==
               opened(path, IF path.ok THEN DiskConfig_from_file(disk, path.val)
                            ELSE [ok |-> FALSE, val |-> disk[FILE_A]])
       IN  at(canonicalize(disk, base_path))
    /\ UNCHANGED <<mode, disk, evalVars, charsVars, uniformVars, reprVars, tsvVars,
                   dictVars, ctxVars, confVars, seedVars, passVars>>

\* one iteration of `while let Some(path) = includes.pop_front()`
Include ==
    /\ mode = "from_file"
    /\ pc = "loop"
    /\ includes # <<>>
    /\ LET merged(path, cfg) ==
               IF ~path.ok \/ (~visited_contains(visited, path.val) /\ ~cfg.ok)
               THEN /\ pc' = "returned"
                    /\ from_file_out' = IoErr
                    /\ UNCHANGED <<includes, visited, merged_global, merged_site, reads>>
               ELSE IF visited_contains(visited, path.val)
               THEN /\ includes' = Tail(includes)
                    /\ UNCHANGED <<pc, from_file_out, visited, merged_global, merged_site,
                                   reads>>
               ELSE /\ includes' = Tail(includes) \o resolve_all(path.val, cfg.val.include)
                    /\ merged_global' = Global_merge(merged_global, cfg.val.global)
                    /\ merged_site' = merged_site \o cfg.val.site
                    /\ visited' = visited \cup {path.val}
                    /\ reads' = Append(reads, path.val)
                    /\ UNCHANGED <<pc, from_file_out>>
           at(path) ==
               merged(path, IF path.ok THEN DiskConfig_from_file(disk, path.val)
                            ELSE [ok |-> FALSE, val |-> disk[FILE_A]])
       IN  at(canonicalize(disk, Head(includes)))
    /\ UNCHANGED <<mode, disk, evalVars, charsVars, uniformVars, reprVars, tsvVars,
                   dictVars, ctxVars, confVars, seedVars, passVars>>

\* the queue is empty: Config::from_global_site(global, site)
Merge ==
    /\ mode = "from_file"
    /\ pc = "loop"
    /\ includes = <<>>
    /\ from_file_out' = from_global_site(merged_global, merged_site, FileNormalize)
    /\ pc' = "returned"
    /\ UNCHANGED <<mode, disk, includes, visited, merged_global, merged_site, reads,
                   evalVars, charsVars, uniformVars, reprVars, tsvVars, dictVars, ctxVars,
                   confVars, seedVars, passVars>>

NextFromFile ==
    \/ \E base_path \in {FILE_A, LINK_A, Path("d1", "x")} : Open(base_path)
    \/ Include
    \/ Merge

SpecFromFile == InitFromFile /\ [][NextFromFile]_vars

\* from_file runs on: no step of it waits for anything
SpecFromFileFair == SpecFromFile /\ WF_vars(NextFromFile)

-----------------------------------------------------------------------------
(* The include traversal of Config::from_file: termination and order *)

\* file g names file f in its include list
Names(g, f) ==
    \E k \in 1..Len(disk[g].include) :
        canonicalize(disk, resolve_path(g, disk[g].include[k])) = [ok |-> TRUE, val |-> f]

\* each canonical path is read and merged at most once, and visited holds the paths read
ReadOnce ==
    /\ \A i, j \in 1..Len(reads) : reads[i] = reads[j] => i = j
    /\ visited = Range(reads)

\* the sites merged are those of the files read, file after file in the order read
SitesInReadOrder ==
    merged_site = Concat([i \in 1..Len(reads) |-> disk[reads[i]].site])

\* every file read after the first was named by a file read before it
ReadAfterAnIncluder ==
    \A i \in 2..Len(reads) : \E j \in 1..(i - 1) : Names(reads[j], reads[i])

\* the entry of the merged sites for the key of site number i holds the schema of the
\* last site of that key that has one, and the highest increment of the sites of that key
LastSchemaHighestIncrement(cfg, sites) ==
    \A i \in 1..Len(sites) :
        LET same == { j \in 1..Len(sites) :
                        /\ FileNormalize[sites[j].url] = FileNormalize[sites[i].url]
                        /\ sites[j].username = sites[i].username }
            with == { j \in same : sites[j].schema.some }
            incs == { sites[j].increment.val : j \in { l \in same : sites[l].increment.some } }
            is(e) ==
                /\ e.schema = IF with = {} THEN None
                              ELSE sites[CHOOSE j \in with : \A l \in with : l <= j].schema
                /\ e.increment = IF incs = {} THEN NoIncrement
                                 ELSE Some(CHOOSE x \in incs : \A y \in incs : y <= x)
        IN  \E k \in 1..Len(cfg.site) :
                /\ cfg.site[k].username = sites[i].username
                /\ FileNormalize[cfg.site[k].url] = FileNormalize[sites[i].url]
                /\ is(cfg.site[k])

TraversalInOrder ==
    (mode = "from_file") =>
        /\ ReadOnce
        /\ SitesInReadOrder
        /\ ReadAfterAnIncluder
        /\ (pc = "returned" /\ from_file_out.ok)
               => /\ includes = <<>>
                  /\ LastSchemaHighestIncrement(from_file_out.val, merged_site)

-----------------------------------------------------------------------------
(* The whole model: a behaviour exercises one component *)

Init == InitEval \/ InitChars \/ InitUniform \/ InitRepr \/ InitTsv \/ InitParse \/ InitDict
            \/ InitContext \/ InitConf \/ InitSeed \/ InitPassword \/ InitFromFile

Next == NextEval \/ NextChars \/ NextUniform \/ NextRepr \/ NextTsv \/ NextParse \/ NextDict
            \/ NextContext \/ NextConf \/ NextSeed \/ NextPassword \/ NextFromFile

Spec == Init /\ [][Next]_vars


=============================================================================
